---- MODULE Spec2Model ----
(***************************************************************************)
(* A model of the otter autoscaling controller: the Cassandra BasicLock    *)
(* and the scheduler's fetch-and-delete loop (otter/tscheduler.py,         *)
(* otter/scheduler.py) and the policy arithmetic and cooldown checks of    *)
(* the controller (otter/controller.py).                                   *)
(***************************************************************************)
EXTENDS Integers, Sequences, FiniteSets, TLC

VARIABLES
    \* ---- lock table and scheduler (tscheduler.py, scheduler.py)
    claims,       \* rows of the locks table for the lock id 'schedule': a set of claim ids
    nextClaim,    \* the next time-based uuid that uuid.uuid1() hands out
    events,       \* rows of sample_events: a set of <<trigger, policyId>>
    pc,           \* pc[i]: where scheduler instance i is in check_events_in_bucket
    claimId,      \* claimId[i]: BasicLock._claim_id of the lock object instance i uses
    retries,      \* retries[i]: retries[0] of BasicLock.acquire
    response,     \* response[i]: the rows _read_lock returned, ordered by claimId
    fetched,      \* fetched[i]: the events the fetch query returned, in order
    execCount,    \* execCount[e]: how often execute_event ran for event e
    execResult    \* execResult[e]: what the last execute_event of event e ended with

lockVars == <<claims, nextClaim, events, pc, claimId, retries, response, fetched, execCount, execResult>>

VARIABLES
    \* ---- controller (controller.py)
    clock,        \* the UTC wall clock, in units of 1/Res second
    config,       \* the scaling group config: minEntities, maxEntities, cooldown
    gstate,       \* the persisted GroupState of the one scaling group
    glock,        \* holder of the group's modify_and_trigger lock (0: free)
    task,         \* task[t]: one modify_and_trigger call in flight
    nops          \* operations submitted so far

ctlVars == <<clock, config, gstate, glock, task, nops>>

VARIABLES
    \* ---- the policy arithmetic applied to drawn inputs
    arithIn,      \* the inputs: a number, a policy and a config
    arithOut      \* the result of the function applied, or None

arithVars == <<arithIn, arithOut>>

VARIABLES
    \* ---- the authenticated request pipeline (pure_http.py, auth_http.py)
    hcall,        \* the arguments of the call: headers, reauth_codes, success_codes, can_retry
    hpc,          \* where the call is in the pipeline
    authCache,    \* the tenant's entry of the authenticator's cache: None or <<token>>
    nextToken,    \* the number of the next token the identity service hands out
    authHdrs,     \* the headers get_auth_headers returned in this run
    sentHdrs,     \* the headers of the last request sent
    respCode,         \* the status code of the last response (0: none)
    hfail,        \* the failure the run ended in
    nreq,         \* requests sent in this run of the pipeline
    ninval,       \* invalidations of the cache entry since the last request was sent
    attempts,     \* runs of the pipeline started for this call
    nretries      \* times should_retry answered True for this call

httpVars == <<hcall, hpc, authCache, nextToken, authHdrs, sentHdrs, respCode, hfail,
              nreq, ninval, attempts, nretries>>

VARIABLES
    \* ---- the self-heal service (convergence/selfheal.py)
    zkChildren,   \* children of /selfheallock: a set of <<sequence number, prefix>>
    zkSeq,        \* the sequence number the next child that stays gets
    kzState,      \* kzState[i]: kz_client.state of instance i
    healPc,       \* healPc[i]: idle, perform (inside _perform) or stopped
    calls,        \* calls[i]: the delayed calls of self.calls that are still active
    healTicks,    \* timer ticks so far
    lastTick,     \* the last _converge_all: <<instance, how it went>>
    lastFire,     \* the last check_and_trigger that ran: what it read and did
    faults        \* connection changes so far

healVars == <<zkChildren, zkSeq, kzState, healPc, calls, healTicks, lastTick,
              lastFire, faults>>

VARIABLES
    \* ---- the scheduler service and its partitioner (scheduler.py)
    svcRunning,   \* SchedulerService.running
    partState,    \* state of the partitioner
    partBuckets,  \* the buckets the partitioner holds for this instance
    bucketEvents, \* bucketEvents[b]: triggers of the events stored in bucket b
    svcClock,     \* datetime.utcnow()
    svcOps,       \* timer ticks and health checks so far
    svcOut        \* what the last _check_events or health_check did and returned

svcVars == <<svcRunning, partState, partBuckets, bucketEvents, svcClock, svcOps, svcOut>>

VARIABLES
    \* ---- convergence through the orchestration service (controller.converge,
    \* ---- heat_worker.py, heat_client.py)
    stDesired,    \* state.desired of the group
    heatStack,    \* state.heat_stack: None or the link of a stack, <<"link", n>>
    heatBusy,     \* the orchestration service has an action on the stack in progress
    heatTemplate, \* the desired capacity of the last template the service accepted
    lastUpdate,   \* the last HeatClient.update_stack: the response and how it ended
    nconv         \* calls of converge so far

stackVars == <<stDesired, heatStack, heatBusy, heatTemplate, lastUpdate, nconv>>

VARIABLES
    \* ---- one SelfHeal instance, its timer and the reactor clock (selfheal.py)
    wNow,         \* clock.seconds()
    wRunning,     \* the service is running (startService .. stopService)
    wPc,          \* "idle", or "listing" while _perform waits for the groups
    wNextTick,    \* when the timer calls _converge_all next
    wCalls,       \* the delayed calls of self.calls that are active
    wActive       \* <<active>> of the last _setup_converges, None before the first

waveVars == <<wNow, wRunning, wPc, wNextTick, wCalls, wActive>>

vars == <<lockVars, ctlVars, arithVars, httpVars, healVars, svcVars, stackVars, waveVars>>

(***************************************************************************)
(* Bounds of the model.                                                    *)
(***************************************************************************)
NumInstances == 2   \* scheduler instances ticking over the same bucket
MaxRetry == 1       \* max_retry of the BasicLock (30 in fetch_and_delete)
BatchSize == 2      \* batchsize of check_events_in_bucket
MaxClaims == 4      \* lock objects constructed in one run
TickTime == 1       \* the `now` both instances tick with
NumDue == 3         \* events of the bucket whose trigger is TickTime

Instances == 1..NumInstances

None == <<>>

(***************************************************************************)
(* The bucket: NumDue events due at TickTime and one later event.  An      *)
(* event is <<trigger, policyId>>, the primary key of sample_events.       *)
(***************************************************************************)
PolicyIds == 1..(NumDue + 1)

DueEvents == {<<TickTime, p>> : p \in 1..NumDue}

InitEvents == DueEvents \cup {<<TickTime + 1, NumDue + 1>>}

\* the cron column of an event: odd policy ids carry a cron entry
HasCron(p) == p % 2 = 1

\* policies whose group or policy has been deleted: get_policy fails for them
DeletedPolicies == {NumDue}

\* next_cron_occurrence(cron): the next occurrence after the current time
next_cron_occurrence(now) == now + 1

(***************************************************************************)
(* Helpers: rows in clustering order.                                      *)
(***************************************************************************)
SetMin(S) == CHOOSE x \in S : \A y \in S : x <= y

RECURSIVE SortedSeq(_)
SortedSeq(S) == IF S = {} THEN <<>>
                ELSE LET m == SetMin(S) IN <<m>> \o SortedSeq(S \ {m})

Take(s, n) == SubSeq(s, 1, IF Len(s) < n THEN Len(s) ELSE n)

SeqSet(s) == {s[k] : k \in 1..Len(s)}

\* _read_lock: SELECT * FROM locks WHERE lockId = ... ORDER BY claimId
ReadLockRows(rows) == SortedSeq(rows)

\* _cql_fetch_batch_of_events: SELECT ... WHERE trigger = :now LIMIT :size,
\* rows of one trigger in policyId order
FetchBatch(evts, now, size) ==
    LET due == {e \in evts : e[1] = now}
        ids == SortedSeq({e[2] : e \in due})
    IN  Take([k \in 1..Len(ids) |-> <<now, ids[k]>>], size)

\* BasicLock.release: DELETE FROM locks WHERE lockId = :lockId (every claim row
\* of the lock id, whoever wrote it)
ReleaseRows(rows, own) == {}

\* _verify_lock: the lock is ours when the first row carries our claim id
VerifyOutcome(resp, own) ==
    IF Len(resp) = 0 THEN "NoLockClaimsError"
    ELSE IF resp[1] = own THEN "acquired"
    ELSE "BusyLockError"

InitLock ==
    /\ claims = {}
    /\ nextClaim = 1
    /\ events = InitEvents
    /\ pc = [i \in Instances |-> "idle"]
    /\ claimId = [i \in Instances |-> 0]
    /\ retries = [i \in Instances |-> 0]
    /\ response = [i \in Instances |-> <<>>]
    /\ fetched = [i \in Instances |-> <<>>]
    /\ execCount = [e \in DueEvents |-> 0]
    /\ execResult = [e \in DueEvents |-> "none"]

(***************************************************************************)
(* check_events_in_bucket._do_check -> fetch_and_delete: a new BasicLock   *)
(* (its claim id is drawn in __init__) and the start of acquire.           *)
(***************************************************************************)
fetch_and_delete(i) ==
    /\ pc[i] \in {"idle", "more"}
    /\ nextClaim <= MaxClaims
    /\ claimId' = [claimId EXCEPT ![i] = nextClaim]
    /\ nextClaim' = nextClaim + 1
    /\ retries' = [retries EXCEPT ![i] = 0]
    /\ pc' = [pc EXCEPT ![i] = "write"]
    /\ UNCHANGED <<claims, events, response, fetched, execCount, execResult, ctlVars, arithVars, httpVars, healVars, svcVars, stackVars, waveVars>>

\* BasicLock._write_lock: INSERT the claim row
write_lock(i) ==
    /\ pc[i] = "write"
    /\ claims' = claims \cup {claimId[i]}
    /\ pc' = [pc EXCEPT ![i] = "read"]
    /\ UNCHANGED <<nextClaim, events, claimId, retries, response, fetched, execCount, execResult, ctlVars, arithVars, httpVars, healVars, svcVars, stackVars, waveVars>>

\* BasicLock._read_lock
read_lock(i) ==
    /\ pc[i] = "read"
    /\ response' = [response EXCEPT ![i] = ReadLockRows(claims)]
    /\ pc' = [pc EXCEPT ![i] = "verify"]
    /\ UNCHANGED <<claims, nextClaim, events, claimId, retries, fetched, execCount, execResult, ctlVars, arithVars, httpVars, healVars, svcVars, stackVars, waveVars>>

\* BasicLock._verify_lock, and acquire.lock_not_acquired on its failure
verify_lock(i) ==
    /\ pc[i] = "verify"
    /\ LET out == VerifyOutcome(response[i], claimId[i]) IN
       IF out = "acquired"
       THEN /\ pc' = [pc EXCEPT ![i] = "fetch"]
            /\ UNCHANGED <<claims, retries>>
       ELSE /\ claims' = ReleaseRows(claims, claimId[i])
            /\ retries' = [retries EXCEPT ![i] = @ + 1]
            /\ pc' = [pc EXCEPT ![i] =
                        IF retries[i] + 1 <= MaxRetry THEN "write" ELSE "failed"]
    /\ UNCHANGED <<nextClaim, events, claimId, response, fetched, execCount, execResult, ctlVars, arithVars, httpVars, healVars, svcVars, stackVars, waveVars>>

\* fetch_and_delete._fetch_and_delete: the SELECT, run while holding the lock
fetch_events(i) ==
    /\ pc[i] = "fetch"
    /\ fetched' = [fetched EXCEPT ![i] = FetchBatch(events, TickTime, BatchSize)]
    /\ pc' = [pc EXCEPT ![i] = "delete"]
    /\ UNCHANGED <<claims, nextClaim, events, claimId, retries, response, execCount, execResult, ctlVars, arithVars, httpVars, healVars, svcVars, stackVars, waveVars>>

\* fetch_and_delete.delete_events: the batch of DELETEs (none when nothing was fetched)
delete_events(i) ==
    /\ pc[i] = "delete"
    /\ events' = events \ SeqSet(fetched[i])
    /\ pc' = [pc EXCEPT ![i] = "release"]
    /\ UNCHANGED <<claims, nextClaim, claimId, retries, response, fetched, execCount, execResult, ctlVars, arithVars, httpVars, healVars, svcVars, stackVars, waveVars>>

\* Lock.with_lock.release_lock -> BasicLock.release
release(i) ==
    /\ pc[i] = "release"
    /\ claims' = ReleaseRows(claims, claimId[i])
    /\ pc' = [pc EXCEPT ![i] = "process"]
    /\ UNCHANGED <<nextClaim, events, claimId, retries, response, fetched, execCount, execResult, ctlVars, arithVars, httpVars, healVars, svcVars, stackVars, waveVars>>

\* successors for every cron event, whatever became of its policy
CronSuccessors_all(batch, deleted, now) ==
    {<<next_cron_occurrence(now), e[2]>> :
        e \in {x \in SeqSet(batch) : HasCron(x[2])}}

\* add_cron_events: the successors of the cron events whose policy still exists
CronSuccessors(batch, deleted, now) ==
    {<<next_cron_occurrence(now), e[2]>> :
        e \in {x \in SeqSet(batch) : HasCron(x[2]) /\ x[2] \notin deleted}}

\* a drain that fetches again after any batch that held an event
check_for_more_nonempty(num_events) ==
    IF num_events > 0 THEN "more" ELSE "done"

\* check_events_in_bucket.check_for_more: _do_check again when the batch
\* held batchsize events, otherwise the drain is over
check_for_more(num_events) ==
    IF num_events = BatchSize THEN "more" ELSE "done"

\* what modify_and_trigger can end with for the policy of an event: a
\* deleted group or policy fails it with the matching error, any other
\* policy is executed, rejected, or fails with some other error
ExecResults(policy_id) ==
    IF policy_id \in DeletedPolicies
    THEN {"NoSuchScalingGroupError", "NoSuchPolicyError"}
    ELSE {"executed", "CannotExecutePolicyError", "error"}

\* an execute_event that gives up the schedule of a policy on any failure
execute_event_any_failure(result, policy_id, deleted_policy_ids) ==
    IF result = "executed" THEN deleted_policy_ids
    ELSE deleted_policy_ids \cup {policy_id}

\* execute_event's errbacks: CannotExecutePolicyError is ignored and logged,
\* collect_deleted_policy traps NoSuchScalingGroupError and NoSuchPolicyError
\* and adds the policy to deleted_policy_ids, anything else goes to log.err
execute_event(result, policy_id, deleted_policy_ids) ==
    IF result = "CannotExecutePolicyError" THEN deleted_policy_ids
    ELSE IF result \in {"NoSuchScalingGroupError", "NoSuchPolicyError"}
    THEN deleted_policy_ids \cup {policy_id}
    ELSE deleted_policy_ids

\* process_events (execute_event for every event, then add_cron_events) and
\* check_events_in_bucket.check_for_more
process_events(i) ==
    /\ pc[i] = "process"
    /\ LET batch == fetched[i]
           policies == {e[2] : e \in SeqSet(batch)}
       IN \E results \in [policies -> UNION {ExecResults(p) : p \in PolicyIds}] :
          /\ \A p \in policies : results[p] \in ExecResults(p)
          /\ LET deleted == UNION {execute_event(results[p], p, {}) : p \in policies}
             IN /\ execCount' = [e \in DueEvents |->
                      IF e \in SeqSet(batch) THEN execCount[e] + 1 ELSE execCount[e]]
                /\ execResult' = [e \in DueEvents |->
                      IF e \in SeqSet(batch) THEN results[e[2]] ELSE execResult[e]]
                /\ events' = events \cup CronSuccessors(batch, deleted, TickTime)
                /\ pc' = [pc EXCEPT ![i] = check_for_more(Len(batch))]
    /\ UNCHANGED <<claims, nextClaim, claimId, retries, response, fetched, ctlVars, arithVars, httpVars, healVars, svcVars, stackVars, waveVars>>

\* a claim row reaches its TTL (3 s); nothing re-inserts it, the heartbeat
\* callback being commented out of acquire_lock
expire_claim ==
    /\ \E c \in claims : claims' = claims \ {c}
    /\ UNCHANGED <<nextClaim, events, pc, claimId, retries, response, fetched, execCount, execResult, ctlVars, arithVars, httpVars, healVars, svcVars, stackVars, waveVars>>

NextLock ==
    \/ \E i \in Instances : fetch_and_delete(i)
    \/ \E i \in Instances : write_lock(i)
    \/ \E i \in Instances : read_lock(i)
    \/ \E i \in Instances : verify_lock(i)
    \/ \E i \in Instances : fetch_events(i)
    \/ \E i \in Instances : delete_events(i)
    \/ \E i \in Instances : release(i)
    \/ \E i \in Instances : process_events(i)
    \/ expire_claim

\* one scheduler instance working through a bucket that holds any of the events
CronInstances == {SetMin(Instances)}

InitCron ==
    /\ claims = {}
    /\ nextClaim = 1
    /\ events \in SUBSET InitEvents
    /\ pc = [i \in Instances |-> "idle"]
    /\ claimId = [i \in Instances |-> 0]
    /\ retries = [i \in Instances |-> 0]
    /\ response = [i \in Instances |-> <<>>]
    /\ fetched = [i \in Instances |-> <<>>]
    /\ execCount = [e \in DueEvents |-> 0]
    /\ execResult = [e \in DueEvents |-> "none"]

NextCron ==
    \/ \E i \in CronInstances : fetch_and_delete(i)
    \/ \E i \in CronInstances : write_lock(i)
    \/ \E i \in CronInstances : read_lock(i)
    \/ \E i \in CronInstances : verify_lock(i)
    \/ \E i \in CronInstances : fetch_events(i)
    \/ \E i \in CronInstances : delete_events(i)
    \/ \E i \in CronInstances : release(i)
    \/ \E i \in CronInstances : process_events(i)
    \/ expire_claim


(***************************************************************************)
(* The controller: one scaling group, its config, its policies and its     *)
(* GroupState (controller.py).                                             *)
(***************************************************************************)
Res == 2            \* clock units per second
MaxTime == 3        \* the clock stops here
MaxOps == 3         \* operations submitted in one run
NumTasks == 2       \* modify_and_trigger calls in flight at once

\* otter.json_schema.group_schemas.MAX_ENTITIES, the hard cap on a group's size
MAX_ENTITIES == 25

Tasks == 1..NumTasks

Min2(a, b) == IF a < b THEN a ELSE b

Max2(a, b) == IF a > b THEN a ELSE b

\* timestamp.now(): the UTC time as an ISO-8601 string, whole seconds and fraction
timestamp_now(t) == <<t \div Res, t % Res>>

\* timestamp.from_timestamp: the string parsed back to a point in time
from_timestamp(ts) == ts[1] * Res + ts[2]

\* the policies of the group: cooldown in seconds and one of change,
\* changePercent, desiredCapacity (the values of test_system_execute_multiple_policies)
ExistingPolicies == {"up", "down", "cap"}

PolicyOf(pid) ==
    CASE pid = "up"   -> [cooldown |-> 1, kind |-> "change", amount |-> 2]
      [] pid = "down" -> [cooldown |-> 2, kind |-> "changePercent", amount |-> -50]
      [] pid = "cap"  -> [cooldown |-> 0, kind |-> "desiredCapacity", amount |-> 30]

\* policy ids a caller may name; "gone" has been deleted (get_policy fails)
CallablePolicies == ExistingPolicies \cup {"gone"}

\* group configs; maxEntities is None or <<n>>
CtlConfigs ==
    { [minEntities |-> 0, maxEntities |-> <<3>>, cooldown |-> 0],
      [minEntities |-> 1, maxEntities |-> None, cooldown |-> 1] }

\* a rounding that drops the fraction
RoundUp_floor(n, d) == n \div d

\* Decimal.to_integral_value(ROUND_UP) of n/d: rounding away from zero
RoundUp(n, d) ==
    IF n >= 0 THEN (n + d - 1) \div d ELSE -((-n + d - 1) \div d)

\* calculate_desired
calculate_desired(current, policy) ==
    IF policy.kind = "change" THEN current + policy.amount
    ELSE IF policy.kind = "changePercent"
         THEN current + RoundUp(current * policy.amount, 100)
    ELSE policy.amount

\* a clamp that forgets minEntities
constrain_desired_nomin(desired, cfg) ==
    Min2(desired, IF cfg.maxEntities = None THEN MAX_ENTITIES ELSE cfg.maxEntities[1])

\* constrain_desired
constrain_desired(desired, cfg) ==
    LET max_entities == IF cfg.maxEntities = None THEN MAX_ENTITIES
                        ELSE cfg.maxEntities[1]
    IN  Max2(Min2(desired, max_entities), cfg.minEntities)

\* a check that still rejects when exactly the cooldown has elapsed
CooldownNotReached_inclusive(state, cfg, policy, pid, now) ==
    IF /\ state.policy_touched[pid] # None
       /\ now - from_timestamp(state.policy_touched[pid]) <= policy.cooldown * Res
    THEN "policy"
    ELSE IF /\ state.group_touched # None
            /\ now - from_timestamp(state.group_touched) <= cfg.cooldown * Res
    THEN "group"
    ELSE "none"

\* a check that holds the policy's cooldown against every policy's timestamp
CooldownNotReached_anypolicy(state, cfg, policy, pid, now) ==
    IF \E q \in DOMAIN state.policy_touched :
          /\ state.policy_touched[q] # None
          /\ now - from_timestamp(state.policy_touched[q]) < policy.cooldown * Res
    THEN "policy"
    ELSE IF /\ state.group_touched # None
            /\ now - from_timestamp(state.group_touched) < cfg.cooldown * Res
    THEN "group"
    ELSE "none"

\* check_cooldowns: the cooldown_type of the first cooldown not reached, policy
\* before group, or "none"
CooldownNotReached(state, cfg, policy, pid, now) ==
    IF /\ state.policy_touched[pid] # None
       /\ now - from_timestamp(state.policy_touched[pid]) < policy.cooldown * Res
    THEN "policy"
    ELSE IF /\ state.group_touched # None
            /\ now - from_timestamp(state.group_touched) < cfg.cooldown * Res
    THEN "group"
    ELSE "none"

check_cooldowns(state, cfg, policy, pid, now) ==
    CooldownNotReached(state, cfg, policy, pid, now) = "none"

\* GroupState.mark_executed
mark_executed(state, pid, now) ==
    [state EXCEPT !.policy_touched[pid] = timestamp_now(now),
                  !.group_touched = timestamp_now(now)]

\* what authentication and the stack request of one converge call may yield
ConvOutcomes == {"ok", "auth_failed", "stack_failed"}

\* converge: authenticate, then update the stack when state.heat_stack is set,
\* else create one and store its link
converge(state, outcome) ==
    IF outcome = "auth_failed" THEN [state |-> state, conv |-> "auth_failed"]
    ELSE IF state.heat_stack
         THEN [state |-> state,
               conv |-> IF outcome = "ok" THEN "update_ok" ELSE "update_failed"]
    ELSE IF outcome = "ok"
         THEN [state |-> [state EXCEPT !.heat_stack = TRUE], conv |-> "create_ok"]
    ELSE [state |-> state, conv |-> "create_failed"]

\* an execution that marks the policy executed before it checks the cooldowns
do_maybe_execute_markfirst(state, cfg, policy, pid, now, outcome) ==
    IF check_cooldowns(state, cfg, policy, pid, now)
    THEN LET desired == calculate_desired(state.desired, policy)
             s1 == [state EXCEPT !.desired = constrain_desired(desired, cfg)]
             s2 == mark_executed(s1, pid, now)
             c  == converge(s2, outcome)
         IN  [state |-> c.state, result |-> "ok", conv |-> c.conv]
    ELSE [state |-> mark_executed(state, pid, now),
          result |-> "CannotExecutePolicyError", conv |-> "none"]

\* an execution that waits on converge with addCallback: its failure fails the call
do_maybe_execute_propagate(state, cfg, policy, pid, now, outcome) ==
    IF check_cooldowns(state, cfg, policy, pid, now)
    THEN LET desired == calculate_desired(state.desired, policy)
             s1 == [state EXCEPT !.desired = constrain_desired(desired, cfg)]
             s2 == mark_executed(s1, pid, now)
             c  == converge(s2, outcome)
         IN  [state |-> c.state,
              result |-> IF c.conv \in {"auth_failed", "create_failed", "update_failed"}
                         THEN "ConvergenceError" ELSE "ok",
              conv |-> c.conv]
    ELSE [state |-> state, result |-> "CannotExecutePolicyError", conv |-> "none"]

\* maybe_execute_scaling_policy._do_maybe_execute
do_maybe_execute(state, cfg, policy, pid, now, outcome) ==
    IF check_cooldowns(state, cfg, policy, pid, now)
    THEN LET desired == calculate_desired(state.desired, policy)
             s1 == [state EXCEPT !.desired = constrain_desired(desired, cfg)]
             s2 == mark_executed(s1, pid, now)
             c  == converge(s2, outcome)
         IN  [state |-> c.state, result |-> "ok", conv |-> c.conv]
    ELSE [state |-> state, result |-> "CannotExecutePolicyError", conv |-> "none"]

\* maybe_execute_scaling_policy: get_policy first, then _do_maybe_execute
maybe_execute_scaling_policy(state, cfg, pid, now, outcome) ==
    IF pid \notin ExistingPolicies
    THEN [state |-> state, result |-> "NoSuchPolicyError", conv |-> "none"]
    ELSE do_maybe_execute(state, cfg, PolicyOf(pid), pid, now, outcome)

\* a reaction to a config change that is refused once the group was touched
\* under a config with a cooldown
obey_config_change_cooldown(state, cfg, outcome) ==
    IF state.group_touched # None /\ cfg.cooldown > 0
    THEN [state |-> state, result |-> "CannotExecutePolicyError", conv |-> "none"]
    ELSE LET s1 == [state EXCEPT !.desired = constrain_desired(state.desired, cfg)]
             c  == converge(s1, outcome)
         IN  [state |-> c.state, result |-> "ok", conv |-> c.conv]

\* obey_config_change: clamp with the new config, converge, log its error
obey_config_change(state, cfg, outcome) ==
    LET s1 == [state EXCEPT !.desired = constrain_desired(state.desired, cfg)]
        c  == converge(s1, outcome)
    IN  [state |-> c.state, result |-> "ok", conv |-> c.conv]

NewState(cfg) ==
    [desired |-> constrain_desired(0, cfg),
     policy_touched |-> [p \in ExistingPolicies |-> None],
     group_touched |-> None,
     paused |-> FALSE,
     heat_stack |-> FALSE]

IdleTask ==
    [pc |-> "idle", op |-> "none", at |-> 0,
     pre |-> NewState(CHOOSE c \in CtlConfigs : c.minEntities = 0),
     local |-> NewState(CHOOSE c \in CtlConfigs : c.minEntities = 0),
     result |-> "none", conv |-> "none"]

InitCtl ==
    /\ clock = 0
    /\ config \in CtlConfigs
    /\ gstate = NewState(config)
    /\ glock = 0
    /\ task = [t \in Tasks |-> IdleTask]
    /\ nops = 0

\* a lock that never excludes
CanAcquire_always(holder) == TRUE

\* modify_and_trigger step 1: the group lock is free
CanAcquire(holder) == holder = 0

\* a caller (API request, scheduler event) calls modify_and_trigger on the group;
\* the calls being interchangeable, a new one takes the lowest free slot
submit(t) ==
    /\ task[t].pc = "idle"
    /\ \A u \in Tasks : u < t => task[u].pc # "idle"
    /\ nops < MaxOps
    /\ nops' = nops + 1
    /\ task' = [task EXCEPT ![t].pc = "waiting"]
    /\ UNCHANGED <<clock, config, gstate, glock, lockVars, arithVars, httpVars, healVars, svcVars, stackVars, waveVars>>

\* modify_and_trigger steps 1 and 2: take the group lock, load the state; fn
\* is a policy execution or, for "config", the reaction to a config change
acquire_and_load(t) ==
    /\ task[t].pc = "waiting"
    /\ CanAcquire(glock)
    /\ glock' = t
    /\ \E op \in CallablePolicies \cup {"config"} :
          task' = [task EXCEPT ![t].pc = "loaded", ![t].op = op,
                                   ![t].pre = gstate, ![t].local = gstate]
    /\ UNCHANGED <<clock, config, gstate, nops, lockVars, arithVars, httpVars, healVars, svcVars, stackVars, waveVars>>

\* modify_and_trigger step 3 with fn = maybe_execute_scaling_policy
execute_policy(t) ==
    /\ task[t].pc = "loaded"
    /\ task[t].op # "config"
    /\ \E outcome \in ConvOutcomes :
          LET r == maybe_execute_scaling_policy(task[t].local, config, task[t].op,
                                                clock, outcome)
          IN  task' = [task EXCEPT ![t].pc = "ran", ![t].at = clock,
                                   ![t].local = r.state, ![t].result = r.result,
                                   ![t].conv = r.conv]
    /\ UNCHANGED <<clock, config, gstate, glock, nops, lockVars, arithVars, httpVars, healVars, svcVars, stackVars, waveVars>>

\* modify_and_trigger step 3 with fn = obey_config_change, for a new config
change_config(t) ==
    /\ task[t].pc = "loaded"
    /\ task[t].op = "config"
    /\ \E cfg \in CtlConfigs, outcome \in ConvOutcomes :
          LET r == obey_config_change(task[t].local, cfg, outcome)
          IN  /\ config' = cfg
              /\ task' = [task EXCEPT ![t].pc = "ran", ![t].at = clock,
                                      ![t].local = r.state, ![t].result = r.result,
                                      ![t].conv = r.conv]
    /\ UNCHANGED <<clock, gstate, glock, nops, lockVars, arithVars, httpVars, healVars, svcVars, stackVars, waveVars>>

\* modify_and_trigger steps 3 and 4: persist the state fn returned (nothing
\* when fn failed), release the lock
persist_and_release(t) ==
    /\ task[t].pc = "ran"
    /\ gstate' = IF task[t].result = "ok"
                 THEN [task[t].local EXCEPT !.paused = gstate.paused]
                 ELSE gstate
    /\ glock' = 0
    /\ task' = [task EXCEPT ![t] = IdleTask]
    /\ UNCHANGED <<clock, config, nops, lockVars, arithVars, httpVars, healVars, svcVars, stackVars, waveVars>>

\* trigger_convergence.py --pause: UPDATE scaling_group SET paused=true
pause_groups ==
    /\ ~gstate.paused
    /\ gstate' = [gstate EXCEPT !.paused = TRUE]
    /\ UNCHANGED <<clock, config, glock, task, nops, lockVars, arithVars, httpVars, healVars, svcVars, stackVars, waveVars>>

\* pause_scaling_group: raises NotImplementedError, and changes nothing
pause_scaling_group ==
    /\ UNCHANGED <<clock, config, gstate, glock, task, nops, lockVars, arithVars, httpVars, healVars, svcVars, stackVars, waveVars>>

\* resume_scaling_group: raises NotImplementedError, and changes nothing
resume_scaling_group ==
    /\ UNCHANGED <<clock, config, gstate, glock, task, nops, lockVars, arithVars, httpVars, healVars, svcVars, stackVars, waveVars>>

\* time passes
tick ==
    /\ clock < MaxTime
    /\ clock' = clock + 1
    /\ UNCHANGED <<config, gstate, glock, task, nops, lockVars, arithVars, httpVars, healVars, svcVars, stackVars, waveVars>>

NextCtl ==
    \/ \E t \in Tasks : submit(t)
    \/ \E t \in Tasks : acquire_and_load(t)
    \/ \E t \in Tasks : execute_policy(t)
    \/ \E t \in Tasks : change_config(t)
    \/ \E t \in Tasks : persist_and_release(t)
    \/ pause_groups
    \/ pause_scaling_group
    \/ resume_scaling_group
    \/ tick

\* the controller at rest, for the specifications that do not run it
CtlIdle ==
    /\ clock = 0
    /\ config = CHOOSE c \in CtlConfigs : c.minEntities = 0
    /\ gstate = NewState(config)
    /\ glock = 0
    /\ task = [t \in Tasks |-> IdleTask]
    /\ nops = 0

(***************************************************************************)
(* The policy arithmetic on drawn inputs: constrain_desired on any number, *)
(* a policy execution and a config change on any current capacity.         *)
(***************************************************************************)
NegIn == 3          \* the lowest number drawn is -NegIn
MaxIn == 28         \* the highest number drawn
MaxPct == 60        \* changePercent is drawn from -MaxPct..MaxPct (and a few beyond)
MaxChange == 4      \* change is drawn from -MaxChange..MaxChange (and a few beyond)

ArithNumbers == (0 - NegIn)..MaxIn

ArithPolicies ==
    [cooldown : {0}, kind : {"change"},
     amount : ((0 - MaxChange)..MaxChange) \cup {-30, 30}]
    \cup
    [cooldown : {0}, kind : {"changePercent"},
     amount : ((0 - MaxPct)..MaxPct) \cup {-200, -150, -100, 100, 150, 200}]
    \cup
    [cooldown : {0}, kind : {"desiredCapacity"}, amount : 0..MaxIn]

\* the configs the group schema admits: 0 <= minEntities <= maxEntities <=
\* MAX_ENTITIES, maxEntities possibly unset
ValidConfig(cfg) ==
    /\ 0 <= cfg.minEntities
    /\ cfg.minEntities <= MAX_ENTITIES
    /\ cfg.maxEntities # None =>
          (cfg.minEntities <= cfg.maxEntities[1] /\ cfg.maxEntities[1] <= MAX_ENTITIES)

ArithConfigs ==
    {cfg \in [minEntities : {0, 1, 3, MAX_ENTITIES},
              maxEntities : {None, <<0>>, <<1>>, <<3>>, <<MAX_ENTITIES>>},
              cooldown : {0}] : ValidConfig(cfg)}

InitArith ==
    /\ arithIn \in [n : ArithNumbers, policy : ArithPolicies, cfg : ArithConfigs]
    /\ arithOut = None

ArithIdle ==
    /\ arithIn = None
    /\ arithOut = None

\* constrain_desired(arithIn.n, arithIn.cfg)
apply_constrain ==
    /\ arithOut = None
    /\ arithOut' = [fn |-> "constrain_desired",
                    desired |-> constrain_desired(arithIn.n, arithIn.cfg)]
    /\ UNCHANGED <<arithIn, lockVars, ctlVars, httpVars, healVars, svcVars, stackVars, waveVars>>

\* maybe_execute_scaling_policy on a group whose desired is arithIn.n
apply_policy ==
    /\ arithOut = None
    /\ arithIn.n >= 0
    /\ LET state == [NewState(arithIn.cfg) EXCEPT !.desired = arithIn.n]
           r == do_maybe_execute(state, arithIn.cfg, arithIn.policy, "up", 0, "ok")
       IN  arithOut' = [fn |-> "maybe_execute_scaling_policy",
                        unconstrained |-> calculate_desired(arithIn.n, arithIn.policy),
                        result |-> r.result,
                        desired |-> r.state.desired]
    /\ UNCHANGED <<arithIn, lockVars, ctlVars, httpVars, healVars, svcVars, stackVars, waveVars>>

\* obey_config_change on a group whose desired is arithIn.n
apply_config ==
    /\ arithOut = None
    /\ arithIn.n >= 0
    /\ LET state == [NewState(arithIn.cfg) EXCEPT !.desired = arithIn.n]
           r == obey_config_change(state, arithIn.cfg, "ok")
       IN  arithOut' = [fn |-> "obey_config_change",
                        result |-> r.result,
                        desired |-> r.state.desired]
    /\ UNCHANGED <<arithIn, lockVars, ctlVars, httpVars, healVars, svcVars, stackVars, waveVars>>

NextArith ==
    \/ apply_constrain
    \/ apply_policy
    \/ apply_config

(***************************************************************************)
(* The authenticated request pipeline (otter/util/pure_http.py,            *)
(* otter/auth_http.py): one call of the request function, driven through   *)
(* the retry layer with should_retry.                                      *)
(***************************************************************************)
MaxAttempts == 7    \* runs of the pipeline the retry layer is followed for
RetryLimit == 5     \* retry_times(5) in should_retry

\* HTTP status codes a service answers with
Codes == {200, 401, 403, 404, 500}

\* a header dict is a function from header names to values
EmptyDict == [k \in {} |-> ""]

\* toolz.dicttoolz.merge taking the caller's value on a conflict
merge_first_wins(a, b) ==
    [k \in DOMAIN a \cup DOMAIN b |-> IF k \in DOMAIN a THEN a[k] ELSE b[k]]

\* toolz.dicttoolz.merge(a, b): the later dict wins on a key both have
merge(a, b) ==
    [k \in DOMAIN a \cup DOMAIN b |-> IF k \in DOMAIN b THEN b[k] ELSE a[k]]

\* the token the identity service hands out on the n-th authentication
Token(n) == "token" \o ToString(n)

\* otter.util.http.headers(token): the auth-related headers of a request
headers(token) ==
    [k \in {"x-auth-token", "accept"} |->
        IF k = "x-auth-token" THEN token ELSE "application/json"]

\* the headers argument of a call: None, or <<dict>>
CallerHeaders ==
    { None,
      <<EmptyDict>>,
      <<[base |-> "header"]>>,
      <<("x-auth-token" :> "abc123")>>,
      <<("x-auth-token" :> "abc123") @@ ("accept" :> "text/plain")
            @@ ("base" :> "header")>> }

\* the failures a pipeline run ends in
APIError(code) == <<"APIError", code>>

ConnectError == <<"ConnectError", 0>>

Failures == {APIError(c) : c \in Codes} \cup {ConnectError}

\* the can_retry argument of should_retry: None, or <<the failures it accepts>>
CanRetryPredicates ==
    { None, <<Failures>>, <<{ConnectError, APIError(500)}>> }

HttpCalls ==
    [headers : CallerHeaders,
     reauth_codes : {{401, 403}, {401, 403, 500}},
     success_codes : {{200}, {200, 404}},
     can_retry : CanRetryPredicates]

\* auth_request.try_request: the headers of the request sent
try_request_headers(hdrs, auth_headers) ==
    LET req_headers == IF hdrs = None THEN EmptyDict ELSE hdrs[1]
    IN  merge(req_headers, auth_headers)

\* a refresh on the default codes only, whatever the caller passed
refresh_auth_on_error_default(reauth_codes, code) == code \in {401, 403}

\* refresh_auth_on_error: whether the auth cache is refreshed for a response
refresh_auth_on_error(reauth_codes, code) == code \in reauth_codes

\* status_check: whether the response code is acceptable
status_check(success_codes, code) == code \in success_codes

\* retry_times(max_retries): a predicate that counts its calls in retries[0]
\* and accepts the first max_retries of them
retry_times(max_retries, count) ==
    [count |-> count + 1, ok |-> count + 1 <= max_retries]

\* compose_retries: every predicate is asked, all must accept
compose_retries(oks) == \A k \in 1..Len(oks) : oks[k]

\* should_retry: times = retry_times(5) is made anew in every call
should_retry(can_retry, e) ==
    LET times == retry_times(RetryLimit, 0)
    IN  IF can_retry # None
        THEN compose_retries(<<times.ok, e \in can_retry[1]>>)
        ELSE times.ok

InitHttp ==
    /\ hcall \in HttpCalls
    /\ hpc = "auth"
    /\ authCache \in {None, <<Token(0)>>}
    /\ nextToken = 1
    /\ authHdrs = None
    /\ sentHdrs = None
    /\ respCode = 0
    /\ hfail = None
    /\ nreq = 0
    /\ ninval = 0
    /\ attempts = 1
    /\ nretries = 0

\* the pipeline at rest, for the specifications that do not run it
HttpIdle ==
    /\ hcall = None
    /\ hpc = "idle"
    /\ authCache = None
    /\ nextToken = 1
    /\ authHdrs = None
    /\ sentHdrs = None
    /\ respCode = 0
    /\ hfail = None
    /\ nreq = 0
    /\ ninval = 0
    /\ attempts = 0
    /\ nretries = 0

\* get_auth_headers: authenticate_tenant answers from the cache or
\* authenticates and caches the new token; headers() of the token
get_auth_headers ==
    /\ hpc = "auth"
    /\ LET token == IF authCache = None THEN Token(nextToken) ELSE authCache[1]
       IN  /\ authCache' = <<token>>
           /\ nextToken' = IF authCache = None THEN nextToken + 1 ELSE nextToken
           /\ authHdrs' = headers(token)
    /\ hpc' = "send"
    /\ UNCHANGED <<hcall, sentHdrs, respCode, hfail, nreq, ninval, attempts, nretries>>
    /\ UNCHANGED <<lockVars, ctlVars, arithVars, healVars, svcVars, stackVars, waveVars>>

\* auth_request.try_request and Request.perform_effect: the request goes out
\* with the merged headers; the service answers with some status code
try_request ==
    /\ hpc = "send"
    /\ sentHdrs' = try_request_headers(hcall.headers, authHdrs)
    /\ nreq' = nreq + 1
    /\ ninval' = 0
    /\ \E code \in Codes : respCode' = code
    /\ hpc' = "refresh"
    /\ UNCHANGED <<hcall, authCache, nextToken, authHdrs, hfail, attempts, nretries>>
    /\ UNCHANGED <<lockVars, ctlVars, arithVars, healVars, svcVars, stackVars, waveVars>>

\* Request.perform_effect failing: no response arrives
try_request_fails ==
    /\ hpc = "send"
    /\ sentHdrs' = try_request_headers(hcall.headers, authHdrs)
    /\ nreq' = nreq + 1
    /\ ninval' = 0
    /\ respCode' = 0
    /\ hfail' = ConnectError
    /\ hpc' = "failed"
    /\ UNCHANGED <<hcall, authCache, nextToken, authHdrs, attempts, nretries>>
    /\ UNCHANGED <<lockVars, ctlVars, arithVars, healVars, svcVars, stackVars, waveVars>>

\* request_with_auth: refresh_auth_on_error on the response; invalidate drops
\* the tenant's cache entry, and the same result is passed on
refresh_auth ==
    /\ hpc = "refresh"
    /\ IF refresh_auth_on_error(hcall.reauth_codes, respCode)
       THEN authCache' = None /\ ninval' = ninval + 1
       ELSE UNCHANGED <<authCache, ninval>>
    /\ hpc' = "check"
    /\ UNCHANGED <<hcall, nextToken, authHdrs, sentHdrs, respCode, hfail, nreq, attempts, nretries>>
    /\ UNCHANGED <<lockVars, ctlVars, arithVars, healVars, svcVars, stackVars, waveVars>>

\* get_request_func.request: the status check on what request_with_auth
\* passed on, raising APIError or yielding the parsed content
check_status ==
    /\ hpc = "check"
    /\ IF status_check(hcall.success_codes, respCode)
       THEN hpc' = "done" /\ UNCHANGED hfail
       ELSE hpc' = "failed" /\ hfail' = APIError(respCode)
    /\ UNCHANGED <<hcall, authCache, nextToken, authHdrs, sentHdrs, respCode, nreq, ninval, attempts, nretries>>
    /\ UNCHANGED <<lockVars, ctlVars, arithVars, healVars, svcVars, stackVars, waveVars>>

\* the retry layer asks should_retry about the failure: True, and after the
\* interval the pipeline is run again
retry_request ==
    /\ hpc = "failed"
    /\ should_retry(hcall.can_retry, hfail)
    /\ attempts < MaxAttempts
    /\ attempts' = attempts + 1
    /\ nretries' = nretries + 1
    /\ nreq' = 0
    /\ hfail' = None
    /\ hpc' = "auth"
    /\ UNCHANGED <<hcall, authCache, nextToken, authHdrs, sentHdrs, respCode, ninval>>
    /\ UNCHANGED <<lockVars, ctlVars, arithVars, healVars, svcVars, stackVars, waveVars>>

\* should_retry answers False: the failure reaches the caller
give_up ==
    /\ hpc = "failed"
    /\ ~should_retry(hcall.can_retry, hfail)
    /\ hpc' = "raised"
    /\ UNCHANGED <<hcall, authCache, nextToken, authHdrs, sentHdrs, respCode, hfail, nreq, ninval, attempts, nretries>>
    /\ UNCHANGED <<lockVars, ctlVars, arithVars, healVars, svcVars, stackVars, waveVars>>

NextHttp ==
    \/ get_auth_headers
    \/ try_request
    \/ try_request_fails
    \/ refresh_auth
    \/ check_status
    \/ retry_request
    \/ give_up

(***************************************************************************)
(* The self-heal service (otter/convergence/selfheal.py): SelfHeal         *)
(* instances sharing the lock /selfheallock.                               *)
(***************************************************************************)
NumHeal == 2          \* SelfHeal instances
NumGroups == 1        \* scaling groups in the store
HealInterval == 7     \* the interval the instances are built with, in seconds
MaxHealTicks == 2     \* timer ticks of all instances together
MaxFaults == 2        \* connection changes of the coordination clients
TimeRangeMargin == 5  \* self.time_range = interval - 5

HealInstances == 1..NumHeal

\* ScalingGroupStatus
GroupStatuses == {"ACTIVE", "ERROR", "DISABLED", "DELETING"}

\* what GetAllValidGroups may list after the tenant filter: the groups of
\* the store from some point of the listing on
GroupListings == {[k \in 1..n |-> NumGroups - n + k] : n \in 0..NumGroups}

\* a check that takes any claim on the lock for one's own
is_lock_acquired_any(children, prefix) == children # {}

\* is_lock_acquired_eff: the child with the lowest sequence number carries
\* our prefix; a child is <<sequence number, prefix>>
is_lock_acquired(children, prefix) ==
    /\ children # {}
    /\ \E c \in children :
          /\ \A d \in children : c[1] <= d[1]
          /\ c[2] = prefix

\* a schedule whose wait_time is the whole-number quotient
setup_converges_intdiv(groups, time_range) ==
    [k \in 1..Len(groups) |->
        [group |-> groups[k],
         num |-> (k - 1) * (time_range \div Len(groups)) * Len(groups),
         den |-> Len(groups)]]

\* _setup_converges: one delayed call per group, the i-th at i * wait_time
\* with wait_time = float(time_range) / len(groups); the delay is the
\* fraction num / den
setup_converges(groups, time_range) ==
    [k \in 1..Len(groups) |->
        [group |-> groups[k],
         num |-> (k - 1) * time_range, den |-> Len(groups)]]

\* _cancel_scheduled_calls: self.calls = []
cancel_scheduled_calls(cs) == <<>>

\* a trigger that forgets to look at paused
check_and_trigger_nopause(status, paused) == status = "ACTIVE"

\* check_and_trigger: whether trigger_convergence is called for the group
check_and_trigger(status, paused) == status = "ACTIVE" /\ ~paused

InitHeal ==
    /\ zkChildren = {}
    /\ zkSeq = 0
    /\ kzState = [i \in HealInstances |-> "CONNECTED"]
    /\ healPc = [i \in HealInstances |-> "idle"]
    /\ calls = [i \in HealInstances |-> <<>>]
    /\ healTicks = 0
    /\ lastTick = None
    /\ lastFire = None
    /\ faults = 0

HealIdle == InitHeal

\* the timer fires: SelfHeal._converge_all up to the call of _perform
converge_all(i) ==
    /\ healPc[i] = "idle"
    /\ healTicks < MaxHealTicks
    /\ healTicks' = healTicks + 1
    /\ IF kzState[i] # "CONNECTED"
       THEN /\ lastTick' = <<i, "not_connected">>
            /\ UNCHANGED <<zkChildren, zkSeq, healPc>>
       ELSE IF is_lock_acquired(zkChildren, i)
       THEN /\ lastTick' = <<i, "held">>
            /\ healPc' = [healPc EXCEPT ![i] = "perform"]
            /\ UNCHANGED <<zkChildren, zkSeq>>
       ELSE IF zkChildren = {}
       THEN \* lock.acquire(True, 0.1) succeeds: our node is the first child
            /\ zkChildren' = {<<zkSeq, i>>}
            /\ zkSeq' = zkSeq + 1
            /\ lastTick' = <<i, "acquired">>
            /\ healPc' = [healPc EXCEPT ![i] = "perform"]
       ELSE \* LockTimeout: the node made for the attempt is deleted again
            /\ lastTick' = <<i, "LockTimeout">>
            /\ UNCHANGED <<zkChildren, zkSeq, healPc>>
    /\ UNCHANGED <<kzState, calls, lastFire, faults>>
    /\ UNCHANGED <<lockVars, ctlVars, arithVars, httpVars, svcVars, stackVars, waveVars>>

\* SelfHeal._perform: the groups arrive and _setup_converges schedules them
perform(i) ==
    /\ healPc[i] = "perform"
    /\ \E groups \in GroupListings :
          calls' = [calls EXCEPT ![i] =
                       cancel_scheduled_calls(@)
                           \o setup_converges(groups, HealInterval - TimeRangeMargin)]
    /\ healPc' = [healPc EXCEPT ![i] = "idle"]
    /\ UNCHANGED <<zkChildren, zkSeq, kzState, healTicks, lastTick, lastFire, faults>>
    /\ UNCHANGED <<lockVars, ctlVars, arithVars, httpVars, svcVars, stackVars, waveVars>>

\* the next delayed call of instance i comes due: check_and_trigger reads
\* the group's info and triggers convergence or not
fire(i) ==
    /\ calls[i] # <<>>
    /\ calls' = [calls EXCEPT ![i] = Tail(@)]
    /\ \E status \in GroupStatuses, paused \in BOOLEAN :
          lastFire' = [status |-> status, paused |-> paused,
                       triggered |-> check_and_trigger(status, paused),
                       has_lock |-> is_lock_acquired(zkChildren, i)]
    /\ UNCHANGED <<zkChildren, zkSeq, kzState, healPc, healTicks, lastTick, faults>>
    /\ UNCHANGED <<lockVars, ctlVars, arithVars, httpVars, svcVars, stackVars, waveVars>>

\* SelfHeal.stopService: the timer stops, the calls are cancelled, the lock
\* is released
stopService(i) ==
    /\ healPc[i] = "idle"
    /\ healPc' = [healPc EXCEPT ![i] = "stopped"]
    /\ calls' = [calls EXCEPT ![i] = cancel_scheduled_calls(@)]
    /\ zkChildren' = {c \in zkChildren : c[2] # i}
    /\ UNCHANGED <<zkSeq, kzState, healTicks, lastTick, lastFire, faults>>
    /\ UNCHANGED <<lockVars, ctlVars, arithVars, httpVars, svcVars, stackVars, waveVars>>

\* the coordination client of instance i changes state: the connection
\* drops (SUSPENDED), the session expires (LOST, its ephemeral nodes go), or
\* the client is connected again
kz_state_change(i) ==
    /\ faults < MaxFaults
    /\ faults' = faults + 1
    /\ \E s \in {"CONNECTED", "SUSPENDED", "LOST"} :
          /\ s # kzState[i]
          /\ kzState[i] = "CONNECTED" => s = "SUSPENDED"
          /\ kzState' = [kzState EXCEPT ![i] = s]
          /\ zkChildren' = IF s = "LOST" THEN {c \in zkChildren : c[2] # i}
                           ELSE zkChildren
    /\ UNCHANGED <<zkSeq, healPc, calls, healTicks, lastTick, lastFire>>
    /\ UNCHANGED <<lockVars, ctlVars, arithVars, httpVars, svcVars, stackVars, waveVars>>

NextHeal ==
    \/ \E i \in HealInstances : converge_all(i)
    \/ \E i \in HealInstances : perform(i)
    \/ \E i \in HealInstances : fire(i)
    \/ \E i \in HealInstances : stopService(i)
    \/ \E i \in HealInstances : kz_state_change(i)

(***************************************************************************)
(* _setup_converges on drawn inputs: an interval and a number of groups.   *)
(***************************************************************************)
MaxInterval == 24   \* the longest interval drawn
MaxListed == 5      \* the most groups listed

\* the intervals drawn leave a time_range that is not negative, as
\* callLater takes no negative delay
InitSched ==
    /\ arithIn \in [interval : TimeRangeMargin..MaxInterval, n : 0..MaxListed]
    /\ arithOut = None

\* _setup_converges for arithIn.n groups with time_range = interval - 5
apply_setup_converges ==
    /\ arithOut = None
    /\ arithOut' = [fn |-> "_setup_converges",
                    calls |-> setup_converges([k \in 1..arithIn.n |-> k],
                                              arithIn.interval - TimeRangeMargin)]
    /\ UNCHANGED <<arithIn, lockVars, ctlVars, httpVars, healVars, svcVars, stackVars, waveVars>>

NextSched == apply_setup_converges

(***************************************************************************)
(* The scheduler service of one instance: its timer tick, its health       *)
(* check and the partitioner that assigns it buckets (scheduler.py).       *)
(***************************************************************************)
NumBuckets == 2     \* buckets the events are spread over
MaxSvcTime == 2     \* the clock runs from 0 to MaxSvcTime
MaxSvcOps == 2      \* timer ticks and health checks in one run
Threshold == 1      \* threshold of the SchedulerService (60 by default)

Buckets == 1..NumBuckets

\* the oldest event of a bucket: None when the bucket is empty
get_oldest_event(triggers) ==
    IF triggers = {} THEN None ELSE <<SetMin(triggers)>>

\* str(event['trigger']): the trigger as the health detail shows it
TriggerStr(t) == "T" \o ToString(t)

\* a check that counts an event as old from the threshold on
check_older_events_inclusive(oldest, now) ==
    LET old_events == {[bucket |-> b, trigger |-> TriggerStr(oldest[b][1])] :
                          b \in {x \in DOMAIN oldest :
                                    /\ oldest[x] # None
                                    /\ now - oldest[x][1] >= Threshold}}
    IN  [healthy |-> old_events = {}, old_events |-> old_events]

\* health_check.check_older_events: the events fetched that are more than
\* threshold seconds older than now, their trigger made a string
check_older_events(oldest, now) ==
    LET old_events == {[bucket |-> b, trigger |-> TriggerStr(oldest[b][1])] :
                          b \in {x \in DOMAIN oldest :
                                    /\ oldest[x] # None
                                    /\ now - oldest[x][1] > Threshold}}
    IN  [healthy |-> old_events = {}, old_events |-> old_events]

\* SchedulerService.health_check
health_check(running, state, buckets, stored, now) ==
    IF ~running THEN [healthy |-> FALSE, reason |-> "Not running"]
    ELSE IF state # "ACQUIRED"
    THEN [healthy |-> FALSE, reason |-> "partitioner not acquired"]
    ELSE check_older_events([b \in buckets |-> get_oldest_event(stored[b])], now)

\* a tick that checks the buckets whatever the partitioner's state
buckets_to_check_unguarded(state, buckets) == buckets

\* SchedulerService._check_events: the buckets check_events_in_bucket is
\* called for
buckets_to_check(state, buckets) ==
    IF state # "ACQUIRED" THEN {} ELSE buckets

InitSvc ==
    /\ svcRunning = FALSE
    /\ partState = "ALLOCATING"
    /\ partBuckets = {}
    /\ bucketEvents \in [Buckets -> {{}} \cup {{t} : t \in 0..(MaxSvcTime - Threshold)}]
    /\ svcClock = 0
    /\ svcOps = 0
    /\ svcOut = None

SvcIdle ==
    /\ svcRunning = FALSE
    /\ partState = "ALLOCATING"
    /\ partBuckets = {}
    /\ bucketEvents = [b \in Buckets |-> {}]
    /\ svcClock = 0
    /\ svcOps = 0
    /\ svcOut = None

\* MultiService.startService / stopService: the timer runs while running
set_running ==
    /\ svcRunning' = ~svcRunning
    /\ UNCHANGED <<partState, partBuckets, bucketEvents, svcClock, svcOps, svcOut>>
    /\ UNCHANGED <<lockVars, ctlVars, arithVars, httpVars, healVars, stackVars, waveVars>>

\* the partitioner: ALLOCATING -> ACQUIRED -> RELEASE -> ALLOCATING; the set
\* held is kept until it is released
partitioner_change ==
    /\ \/ /\ partState = "ALLOCATING"
          /\ partState' = "ACQUIRED"
          /\ partBuckets' \in SUBSET Buckets
       \/ /\ partState = "ACQUIRED"
          /\ partState' = "RELEASE"
          /\ UNCHANGED partBuckets
       \/ /\ partState = "RELEASE"
          /\ partState' = "ALLOCATING"
          /\ partBuckets' = {}
    /\ UNCHANGED <<svcRunning, bucketEvents, svcClock, svcOps, svcOut>>
    /\ UNCHANGED <<lockVars, ctlVars, arithVars, httpVars, healVars, stackVars, waveVars>>

\* time passes
utcnow_advances ==
    /\ svcClock < MaxSvcTime
    /\ svcClock' = svcClock + 1
    /\ UNCHANGED <<svcRunning, partState, partBuckets, bucketEvents, svcOps, svcOut>>
    /\ UNCHANGED <<lockVars, ctlVars, arithVars, httpVars, healVars, stackVars, waveVars>>

\* SchedulerService._check_events, called by the timer: for every bucket it
\* checks, check_events_in_bucket either drains the events due at utcnow
\* (they are deleted and executed) or fails in its fetch and leaves them
check_events ==
    /\ svcRunning
    /\ svcOps < MaxSvcOps
    /\ LET checked == buckets_to_check(partState, partBuckets) IN
       \E drained \in SUBSET checked :
          LET due(b) == {t \in bucketEvents[b] : t <= svcClock} IN
          /\ bucketEvents' = [b \in Buckets |->
                                IF b \in drained THEN bucketEvents[b] \ due(b)
                                ELSE bucketEvents[b]]
          /\ svcOut' = [op |-> "check_events",
                        checked |-> checked,
                        executed |-> {e \in Buckets \X (0..MaxSvcTime) :
                                         e[1] \in drained /\ e[2] \in due(e[1])}]
    /\ svcOps' = svcOps + 1
    /\ UNCHANGED <<svcRunning, partState, partBuckets, svcClock>>
    /\ UNCHANGED <<lockVars, ctlVars, arithVars, httpVars, healVars, stackVars, waveVars>>

\* a call of SchedulerService.health_check; when get_oldest_event fails, the
\* Deferred of the call fails and the result is never delivered
call_health_check ==
    /\ svcOps < MaxSvcOps
    /\ \E store_fails \in BOOLEAN :
          svcOut' = [op |-> "health_check",
                     failed |-> /\ store_fails
                                /\ svcRunning /\ partState = "ACQUIRED" /\ partBuckets # {},
                     result |-> health_check(svcRunning, partState, partBuckets,
                                             bucketEvents, svcClock)]
    /\ svcOps' = svcOps + 1
    /\ UNCHANGED <<svcRunning, partState, partBuckets, bucketEvents, svcClock>>
    /\ UNCHANGED <<lockVars, ctlVars, arithVars, httpVars, healVars, stackVars, waveVars>>

NextSvc ==
    \/ set_running
    \/ partitioner_change
    \/ utcnow_advances
    \/ check_events
    \/ call_health_check

(***************************************************************************)
(* The convergence planner: converge(desired, servers, lb nodes, now) and  *)
(* the steps it plans (otter.convergence, exercised by test_convergence).  *)
(* A server is [id, state, created, servicenet_address, desired_lbs], its  *)
(* address 0 when it has none; a node is [node_id, address, config]; a     *)
(* step is a tuple whose first element is its kind.                        *)
(***************************************************************************)
MaxServers == 2     \* the most servers observed

\* the timeout of a build, in seconds
BuildTimeout == 3600

LBConfig(lb_id, port, weight) == [lb_id |-> lb_id, port |-> port, weight |-> weight]

RECURSIVE Flatten(_)
Flatten(seqs) == IF seqs = <<>> THEN <<>> ELSE Head(seqs) \o Flatten(Tail(seqs))

\* sorted(servers, key=lambda s: -s.created): a stable sort
RECURSIVE newest_to_oldest(_)
newest_to_oldest(servers) ==
    IF servers = <<>> THEN <<>>
    ELSE LET newest == CHOOSE c \in {servers[k].created : k \in 1..Len(servers)} :
                          \A k \in 1..Len(servers) : servers[k].created <= c
         IN  SelectSeq(servers, LAMBDA x : x.created = newest)
             \o newest_to_oldest(SelectSeq(servers, LAMBDA x : x.created # newest))

\* a build that has taken BuildTimeout or longer
building_too_long(server, now) ==
    server.state = "BUILD" /\ now - server.created >= BuildTimeout

\* steps that add every desired node, whatever nodes there are
converge_lb_state_readd(desired_lb_state, current_lb_state, ip_address) ==
    [k \in 1..Len(desired_lb_state) |->
        <<"AddToLoadBalancer", desired_lb_state[k].lb_id, ip_address,
          desired_lb_state[k].port, desired_lb_state[k].weight>>]

\* _converge_lb_state: the steps that take the nodes of one address to the
\* desired configs, matched by load balancer id and port
converge_lb_state(desired_lb_state, current_lb_state, ip_address) ==
    LET key(c) == <<c.lb_id, c.port>>
        desired_keys == {key(desired_lb_state[k]) : k \in 1..Len(desired_lb_state)}
        current_keys == {key(current_lb_state[k].config) : k \in 1..Len(current_lb_state)}
        want(n) == CHOOSE d \in {desired_lb_state[k] : k \in 1..Len(desired_lb_state)} :
                      key(d) = key(n.config)
        adds == SelectSeq(desired_lb_state, LAMBDA d : key(d) \notin current_keys)
        changes == SelectSeq(current_lb_state,
                             LAMBDA n : key(n.config) \in desired_keys
                                        /\ want(n) # n.config)
        removes == SelectSeq(current_lb_state, LAMBDA n : key(n.config) \notin desired_keys)
    IN  [k \in 1..Len(adds) |->
            <<"AddToLoadBalancer", adds[k].lb_id, ip_address, adds[k].port,
              adds[k].weight>>]
        \o [k \in 1..Len(changes) |->
            <<"ChangeLoadBalancerNode", changes[k].config.lb_id, changes[k].node_id,
              want(changes[k]).weight>>]
        \o [k \in 1..Len(removes) |->
            <<"RemoveFromLoadBalancer", removes[k].config.lb_id, removes[k].node_id>>]

\* the nodes that carry the servicenet address of a server
nodes_of(server, lb_nodes) ==
    IF server.servicenet_address = 0 THEN <<>>
    ELSE SelectSeq(lb_nodes, LAMBDA n : n.address = server.servicenet_address)

\* a planner that replaces every server it deletes as errored
planner_converge_replace(desired, servers, lb_nodes, now) ==
    LET sorted == newest_to_oldest(servers)
        errored == SelectSeq(sorted, LAMBDA x : x.state = "ERROR"
                                                \/ building_too_long(x, now))
        active == SelectSeq(sorted, LAMBDA x : x.state = "ACTIVE")
        building == SelectSeq(sorted, LAMBDA x : x.state = "BUILD"
                                                 /\ ~building_too_long(x, now))
        survivors == active \o building
        to_delete == SubSeq(survivors, desired + 1, Len(survivors))
        doomed == errored \o to_delete
    IN  [k \in 1..Max2(0, desired - Len(survivors) + Len(errored)) |-> <<"CreateServer">>]
        \o [k \in 1..Len(doomed) |-> <<"DeleteServer", doomed[k].id>>]

\* a planner that counts a timed-out build among the survivors too
planner_converge_twice(desired, servers, lb_nodes, now) ==
    LET sorted == newest_to_oldest(servers)
        errored == SelectSeq(sorted, LAMBDA x : x.state = "ERROR"
                                                \/ building_too_long(x, now))
        active == SelectSeq(sorted, LAMBDA x : x.state = "ACTIVE")
        building == SelectSeq(sorted, LAMBDA x : x.state = "BUILD")
        survivors == active \o building
        to_delete == SubSeq(survivors, desired + 1, Len(survivors))
        doomed == errored \o to_delete
    IN  [k \in 1..Max2(0, desired - Len(survivors)) |-> <<"CreateServer">>]
        \o [k \in 1..Len(doomed) |-> <<"DeleteServer", doomed[k].id>>]

\* a planner that scales down from the head of the list: newest active first
planner_converge_newest(desired, servers, lb_nodes, now) ==
    LET sorted == newest_to_oldest(servers)
        errored == SelectSeq(sorted, LAMBDA x : x.state = "ERROR"
                                                \/ building_too_long(x, now))
        active == SelectSeq(sorted, LAMBDA x : x.state = "ACTIVE")
        building == SelectSeq(sorted, LAMBDA x : x.state = "BUILD"
                                                 /\ ~building_too_long(x, now))
        survivors == active \o building
        to_delete == SubSeq(survivors, 1, Len(survivors) - desired)
        doomed == errored \o to_delete
    IN  [k \in 1..Max2(0, desired - Len(survivors)) |-> <<"CreateServer">>]
        \o [k \in 1..Len(doomed) |-> <<"DeleteServer", doomed[k].id>>]

\* a planner that cleans up the nodes of the servers it scales down only
planner_converge_nocleanup(desired, servers, lb_nodes, now) ==
    LET sorted == newest_to_oldest(servers)
        errored == SelectSeq(sorted, LAMBDA x : x.state = "ERROR"
                                                \/ building_too_long(x, now))
        active == SelectSeq(sorted, LAMBDA x : x.state = "ACTIVE")
        building == SelectSeq(sorted, LAMBDA x : x.state = "BUILD"
                                                 /\ ~building_too_long(x, now))
        survivors == active \o building
        to_delete == SubSeq(survivors, desired + 1, Len(survivors))
        doomed == errored \o to_delete
        doomed_ids == {doomed[k].id : k \in 1..Len(doomed)}
        still_active == SelectSeq(active, LAMBDA x : x.id \notin doomed_ids)
        cleanup(x) == LET ns == nodes_of(x, lb_nodes) IN
                      [k \in 1..Len(ns) |->
                          <<"RemoveFromLoadBalancer", ns[k].config.lb_id, ns[k].node_id>>]
        lb_steps(x) == IF x.servicenet_address = 0 THEN <<>>
                       ELSE converge_lb_state(x.desired_lbs, nodes_of(x, lb_nodes),
                                              x.servicenet_address)
    IN  [k \in 1..Max2(0, desired - Len(survivors)) |-> <<"CreateServer">>]
        \o [k \in 1..Len(doomed) |-> <<"DeleteServer", doomed[k].id>>]
        \o Flatten([k \in 1..Len(to_delete) |-> cleanup(to_delete[k])])
        \o Flatten([k \in 1..Len(still_active) |-> lb_steps(still_active[k])])

\* converge: the plan, its steps in the order they are emitted
planner_converge(desired, servers, lb_nodes, now) ==
    LET sorted == newest_to_oldest(servers)
        errored == SelectSeq(sorted, LAMBDA x : x.state = "ERROR"
                                                \/ building_too_long(x, now))
        active == SelectSeq(sorted, LAMBDA x : x.state = "ACTIVE")
        building == SelectSeq(sorted, LAMBDA x : x.state = "BUILD"
                                                 /\ ~building_too_long(x, now))
        survivors == active \o building
        to_delete == SubSeq(survivors, desired + 1, Len(survivors))
        doomed == errored \o to_delete
        doomed_ids == {doomed[k].id : k \in 1..Len(doomed)}
        still_active == SelectSeq(active, LAMBDA x : x.id \notin doomed_ids)
        cleanup(x) == LET ns == nodes_of(x, lb_nodes) IN
                      [k \in 1..Len(ns) |->
                          <<"RemoveFromLoadBalancer", ns[k].config.lb_id, ns[k].node_id>>]
        lb_steps(x) == IF x.servicenet_address = 0 THEN <<>>
                       ELSE converge_lb_state(x.desired_lbs, nodes_of(x, lb_nodes),
                                              x.servicenet_address)
    IN  [k \in 1..Max2(0, desired - Len(survivors)) |-> <<"CreateServer">>]
        \o [k \in 1..Len(doomed) |-> <<"DeleteServer", doomed[k].id>>]
        \o Flatten([k \in 1..Len(doomed) |-> cleanup(doomed[k])])
        \o Flatten([k \in 1..Len(still_active) |-> lb_steps(still_active[k])])

\* the observation once every step of a plan has been executed: created
\* servers are building, deleted servers and removed nodes are gone, added
\* and changed nodes are as the step says
resample(servers, lb_nodes, steps, lbs, now) ==
    LET of(kind) == SelectSeq(steps, LAMBDA st : st[1] = kind)
        deleted == {st[2] : st \in SeqSet(of("DeleteServer"))}
        removed == {<<st[2], st[3]>> : st \in SeqSet(of("RemoveFromLoadBalancer"))}
        changes == of("ChangeLoadBalancerNode")
        adds == of("AddToLoadBalancer")
        changed(n) == {st \in SeqSet(changes) : st[2] = n.config.lb_id /\ st[3] = n.node_id}
        kept == SelectSeq(lb_nodes, LAMBDA n : <<n.config.lb_id, n.node_id>> \notin removed)
    IN  [servers |->
            SelectSeq(servers, LAMBDA x : x.id \notin deleted)
            \o [k \in 1..Len(of("CreateServer")) |->
                   [id |-> Len(servers) + k, state |-> "BUILD", created |-> now,
                    servicenet_address |-> 0, desired_lbs |-> lbs]],
         lb_nodes |->
            [k \in 1..Len(kept) |->
                IF changed(kept[k]) = {} THEN kept[k]
                ELSE [kept[k] EXCEPT !.config.weight =
                         (CHOOSE st \in changed(kept[k]) : TRUE)[4]]]
            \o [k \in 1..Len(adds) |->
                   [node_id |-> Len(lb_nodes) + k, address |-> adds[k][3],
                    config |-> LBConfig(adds[k][2], adds[k][4], adds[k][5])]]]

\* observations of n servers at `now`: an old and a new active server, a
\* build that has timed out, a build that has not and is older than the
\* new active server, a server in error; server `addressless` has no
\* servicenet address
PlanServers(n, lbs, addressless) ==
    {[k \in 1..n |-> [id |-> k, state |-> f[k][1], created |-> f[k][2],
                      servicenet_address |-> IF k = addressless THEN 0 ELSE k,
                      desired_lbs |-> lbs]] :
        f \in [1..n -> {<<"ACTIVE", 0>>, <<"ACTIVE", BuildTimeout>>,
                        <<"BUILD", 0>>, <<"BUILD", 1>>, <<"ERROR", 0>>}]}

\* the launch config asks for no load balancer or for port 80 of load
\* balancer 5 at the default weight; the nodes found have that config,
\* another weight or another port
InitPlan ==
    /\ \E n \in 0..MaxServers, addressless \in 0..1 :
       \E lb \in {<<<<>>, LBConfig(5, 80, 1)>>,
                  <<<<LBConfig(5, 80, 1)>>, LBConfig(5, 80, 1)>>,
                  <<<<LBConfig(5, 80, 1)>>, LBConfig(5, 80, 2)>>,
                  <<<<LBConfig(5, 80, 1)>>, LBConfig(5, 8080, 1)>>} :
       \E servers \in PlanServers(n, lb[1], addressless), with_node \in SUBSET (1..n) :
          arithIn \in [desired : 0..MaxServers,
                       servers : {servers},
                       lb_nodes : {LET ids == SortedSeq(with_node) IN
                                   [k \in 1..Len(ids) |->
                                       [node_id |-> ids[k], address |-> ids[k],
                                        config |-> lb[2]]]},
                       lbs : {lb[1]},
                       now : {BuildTimeout}]
    /\ arithOut = None

\* converge on the observation, every step of the plan executed, and
\* converge again on the observation sampled afterwards
apply_converge ==
    /\ arithOut = None
    /\ LET steps == planner_converge(arithIn.desired, arithIn.servers,
                                     arithIn.lb_nodes, arithIn.now)
           after == resample(arithIn.servers, arithIn.lb_nodes, steps,
                             arithIn.lbs, arithIn.now)
       IN  arithOut' = [fn |-> "converge",
                        steps |-> steps,
                        after |-> after,
                        again |-> planner_converge(arithIn.desired, after.servers,
                                                   after.lb_nodes, arithIn.now)]
    /\ UNCHANGED <<arithIn, lockVars, ctlVars, httpVars, healVars, svcVars, stackVars, waveVars>>

NextPlan == apply_converge

(***************************************************************************)
(* Convergence through the orchestration service: controller.converge,     *)
(* HeatWorker and HeatClient.update_stack (controller.py, heat_worker.py,  *)
(* heat_client.py).  A response body is [json, has_error, has_message,     *)
(* message]: whether it parses as JSON, whether the parsed object has      *)
(* 'error', whether that has 'message', and the message as its pieces.     *)
(***************************************************************************)
MaxConverges == 3     \* calls of converge in one run
MaxStackDesired == 2  \* the largest state.desired

\* the text check_update_in_progress looks for at the start of the message
InProgressText ==
    <<"Updating a stack when another action is in progress is not supported">>

\* str.startswith
StartsWith(m, prefix) ==
    Len(m) >= Len(prefix) /\ SubSeq(m, 1, Len(prefix)) = prefix

UpdateInProgressError == <<"UpdateInProgressError", 0>>

NoBody == [json |-> FALSE, has_error |-> FALSE, has_message |-> FALSE, message |-> <<>>]

\* what the orchestration service may answer a PUT of the stack with: it
\* accepts an update (202) only when no action is in progress, and refuses
\* one with 409 or with its 400 message when an action is
HeatResponses(busy) ==
    (IF busy
     THEN {<<409, NoBody>>,
           <<400, [json |-> TRUE, has_error |-> TRUE, has_message |-> TRUE,
                   message |-> InProgressText \o <<".">>]>>,
           <<400, [json |-> TRUE, has_error |-> TRUE, has_message |-> TRUE,
                   message |-> InProgressText]>>}
     ELSE {<<202, NoBody>>})
    \cup {<<400, [json |-> TRUE, has_error |-> TRUE, has_message |-> TRUE,
                  message |-> <<"The template is not valid">>]>>,
          <<400, [json |-> TRUE, has_error |-> TRUE, has_message |-> FALSE,
                  message |-> <<>>]>>,
          <<400, [json |-> TRUE, has_error |-> FALSE, has_message |-> FALSE,
                  message |-> <<>>]>>,
          <<400, NoBody>>,
          <<404, NoBody>>,
          <<500, NoBody>>}

\* a check for the very message and nothing after it
check_update_in_progress_exact(failure, body) ==
    IF failure[1] # "APIError" THEN failure
    ELSE IF failure[2] # 400 THEN failure
    ELSE IF ~body.json THEN <<"ValueError", 0>>
    ELSE IF body.has_error /\ body.has_message /\ body.message = InProgressText
    THEN UpdateInProgressError
    ELSE failure

\* update_stack.check_update_in_progress: traps APIError; on a 400 it parses
\* the body (json.loads raises ValueError on a body that is no JSON) and
\* raises UpdateInProgressError when error.message starts with the text
check_update_in_progress(failure, body) ==
    IF failure[1] # "APIError" THEN failure
    ELSE IF failure[2] # 400 THEN failure
    ELSE IF ~body.json THEN <<"ValueError", 0>>
    ELSE IF body.has_error /\ body.has_message
            /\ StartsWith(body.message, InProgressText)
    THEN UpdateInProgressError
    ELSE failure

\* raise_error_on_code: the error given for an APIError of the code given,
\* any other failure passed on
raise_error_on_code(failure, code, error) ==
    IF failure[1] = "APIError" /\ failure[2] = code THEN error ELSE failure

\* HeatClient.update_stack: how its Deferred ends for a response
update_stack(code, body) ==
    IF code = 202 THEN <<"content", 0>>
    ELSE raise_error_on_code(check_update_in_progress(APIError(code), body),
                             409, UpdateInProgressError)

InitStack ==
    /\ stDesired = 0
    /\ heatStack = None
    /\ heatBusy = FALSE
    /\ heatTemplate = 0
    /\ lastUpdate = None
    /\ nconv = 0

StackIdle == InitStack

\* a converge that creates a stack every time
converge_worker_call_create(heat_stack) == "create_stack"

\* converge._converge: update_stack if state.heat_stack, else create_stack
converge_worker_call(heat_stack) ==
    IF heat_stack # None THEN "update_stack" ELSE "create_stack"

\* converge, called once `desired` has been stored in the state: with no
\* stack yet, HeatWorker.create_stack, and set_stack with the link of the
\* new stack if the creation succeeded; with a stack,
\* HeatWorker.update_stack, which logs a failure of the client's call and
\* ends without one
stack_converge(desired) ==
    /\ nconv < MaxConverges
    /\ nconv' = nconv + 1
    /\ stDesired' = desired
    /\ IF converge_worker_call(heatStack) = "create_stack"
       THEN \/ /\ heatStack' = <<"link", nconv + 1>>
               /\ heatTemplate' = desired
               /\ heatBusy' = TRUE
               /\ UNCHANGED lastUpdate
            \/ UNCHANGED <<heatStack, heatTemplate, heatBusy, lastUpdate>>
       ELSE \E r \in HeatResponses(heatBusy) :
               /\ lastUpdate' = [code |-> r[1], body |-> r[2],
                                 desired |-> desired,
                                 outcome |-> update_stack(r[1], r[2])]
               /\ heatTemplate' = IF r[1] = 202 THEN desired ELSE heatTemplate
               /\ heatBusy' = (heatBusy \/ r[1] = 202)
               /\ UNCHANGED heatStack
    /\ UNCHANGED <<lockVars, ctlVars, arithVars, httpVars, healVars, svcVars, waveVars>>

\* the orchestration service finishes the action it has in progress
heat_action_done ==
    /\ heatBusy
    /\ heatBusy' = FALSE
    /\ UNCHANGED <<stDesired, heatStack, heatTemplate, lastUpdate, nconv>>
    /\ UNCHANGED <<lockVars, ctlVars, arithVars, httpVars, healVars, svcVars, waveVars>>

NextStack ==
    \/ \E desired \in 0..MaxStackDesired : stack_converge(desired)
    \/ heat_action_done

(***************************************************************************)
(* One SelfHeal instance in time: the timer, the listing of the groups,    *)
(* the wave of delayed calls and the stop of the service.  The instance    *)
(* is connected and gets or has the lock on every tick.                    *)
(***************************************************************************)
WaveGroups == 3     \* the most groups a listing holds
MaxWaveTime == 8    \* the clock stops here

\* the delayed calls _setup_converges makes at time now: call k of n is due
\* at now + (k-1) * wait_time, wait_time = float(time_range) / n; the time
\* is the fraction num / den
wave_calls(groups, time_range, now) ==
    {[group |-> groups[k], num |-> now * Len(groups) + (k - 1) * time_range,
      den |-> Len(groups)] : k \in 1..Len(groups)}

\* the delayed calls whose time has come
DueCalls == {c \in wCalls : c.num <= wNow * c.den}

InitWave ==
    /\ wNow = 0
    /\ wRunning = TRUE
    /\ wPc = "idle"
    /\ wNextTick = 0
    /\ wCalls = {}
    /\ wActive = None

WaveIdle == InitWave

\* the timer calls _converge_all: the lock is ours, _perform asks for the
\* groups; the timer calls again an interval later
wave_converge_all ==
    /\ wRunning
    /\ wPc = "idle"
    /\ wNow = wNextTick
    /\ DueCalls = {}
    /\ wPc' = "listing"
    /\ wNextTick' = wNextTick + HealInterval
    /\ UNCHANGED <<wNow, wRunning, wCalls, wActive>>
    /\ UNCHANGED <<lockVars, ctlVars, arithVars, httpVars, healVars, svcVars, stackVars>>

\* the groups arrive: _setup_converges cancels what is left of self.calls,
\* counting the calls still active, and schedules the new wave
wave_setup_converges ==
    /\ wPc = "listing"
    /\ DueCalls = {}
    /\ \E n \in 0..WaveGroups :
          wCalls' = wave_calls([k \in 1..n |-> k], HealInterval - TimeRangeMargin, wNow)
    /\ wActive' = <<Cardinality(wCalls)>>
    /\ wPc' = "idle"
    /\ UNCHANGED <<wNow, wRunning, wNextTick>>
    /\ UNCHANGED <<lockVars, ctlVars, arithVars, httpVars, healVars, svcVars, stackVars>>

\* a delayed call comes due and runs check_and_trigger
wave_fire ==
    /\ \E c \in DueCalls : wCalls' = wCalls \ {c}
    /\ UNCHANGED <<wNow, wRunning, wPc, wNextTick, wActive>>
    /\ UNCHANGED <<lockVars, ctlVars, arithVars, httpVars, healVars, svcVars, stackVars>>

\* a second passes, once everything due has run; a listing arrives before
\* the timer is due again, so that the timer ticks every interval
wave_second ==
    /\ wNow < MaxWaveTime
    /\ DueCalls = {}
    /\ ~(wRunning /\ wPc = "idle" /\ wNow = wNextTick)
    /\ ~(wPc = "listing" /\ wNow + 1 = wNextTick)
    /\ wNow' = wNow + 1
    /\ UNCHANGED <<wRunning, wPc, wNextTick, wCalls, wActive>>
    /\ UNCHANGED <<lockVars, ctlVars, arithVars, httpVars, healVars, svcVars, stackVars>>

\* SelfHeal.stopService: the timer is stopped, the calls are cancelled and
\* the lock is released; a listing in flight stays in flight, the Deferred
\* of the timer's stop not being waited for
wave_stopService ==
    /\ wRunning
    /\ wRunning' = FALSE
    /\ wCalls' = {}
    /\ UNCHANGED <<wNow, wPc, wNextTick, wActive>>
    /\ UNCHANGED <<lockVars, ctlVars, arithVars, httpVars, healVars, svcVars, stackVars>>

NextWave ==
    \/ wave_converge_all
    \/ wave_setup_converges
    \/ wave_fire
    \/ wave_second
    \/ wave_stopService

(***************************************************************************)
(* Two functions applied to drawn inputs: the paged listing of servers     *)
(* (otter.convergence.get_all_server_details, exercised by                 *)
(* test_convergence) and the template of a stack (heat_template.py).       *)
(***************************************************************************)
MaxTotal == 7       \* the most servers the compute service lists
MaxLimit == 3       \* the largest page size
MaxCapacity == 4    \* the largest desired capacity of a template

\* GET servers/detail?limit=N[&marker=M]: the servers that follow the one
\* with id M in the listing (from the start without a marker), N at most
servers_detail(listing, limit, marker) ==
    LET start == IF marker = None THEN 0
                 ELSE CHOOSE k \in 1..Len(listing) : listing[k].id = marker[1]
    IN  SubSeq(listing, start + 1, Min2(Len(listing), start + limit))

\* a listing that goes on until a page comes back empty
get_all_server_details_untilempty(listing, limit) ==
    LET RECURSIVE get_server_details(_)
        get_server_details(marker) ==
            LET servers == servers_detail(listing, limit, marker) IN
            IF Len(servers) = 0
            THEN [servers |-> servers, requests |-> 1]
            ELSE LET more == get_server_details(<<servers[Len(servers)].id>>) IN
                 [servers |-> servers \o more.servers,
                  requests |-> 1 + more.requests]
    IN  get_server_details(None)

\* get_all_server_details: pages of `limit` servers, the id of the last
\* server of a page the marker of the next, until a page is shorter than
\* limit; with the servers, the number of requests made
get_all_server_details(listing, limit) ==
    LET RECURSIVE get_server_details(_)
        get_server_details(marker) ==
            LET servers == servers_detail(listing, limit, marker) IN
            IF Len(servers) < limit
            THEN [servers |-> servers, requests |-> 1]
            ELSE LET more == get_server_details(<<servers[Len(servers)].id>>) IN
                 [servers |-> servers \o more.servers,
                  requests |-> 1 + more.requests]
    IN  get_server_details(None)

\* lc_to_resource, with rename_keys and PROPERTY_RENAMES
lc_to_resource(lc) ==
    LET server == lc.args.server
        renames == ("imageRef" :> "image") @@ ("flavorRef" :> "flavor")
                   @@ ("OS-DCF:diskConfig" :> "diskConfig")
        new_key(key) == IF key \in DOMAIN renames THEN renames[key] ELSE key
    IN  [type |-> "OS::Nova::Server",
         properties |-> [k \in {new_key(key) : key \in DOMAIN server} |->
                            server[CHOOSE key \in DOMAIN server : new_key(key) = k]]]

\* a template whose resources are numbered from 1
generate_template_from1(launch_config, desired_capacity) ==
    LET resource_definition == lc_to_resource(launch_config)
        server == launch_config.args.server
        name == IF "name" \in DOMAIN server THEN server["name"] ELSE "server"
    IN  [heat_template_version |-> "2013-05-23",
         resources |-> [k \in {name \o "-" \o ToString(i) : i \in 1..desired_capacity}
                           |-> resource_definition]]

\* generate_template
generate_template(launch_config, desired_capacity) ==
    LET resource_definition == lc_to_resource(launch_config)
        server == launch_config.args.server
        name == IF "name" \in DOMAIN server THEN server["name"] ELSE "server"
    IN  [heat_template_version |-> "2013-05-23",
         resources |-> [k \in {name \o "-" \o ToString(i) :
                                  i \in 0..(desired_capacity - 1)}
                           |-> resource_definition]]

\* outcomes of the calls Lock.with_lock makes: what the Deferred of a call
\* fires with
Outcome(failed, value) == [failed |-> failed, value |-> value]

\* a with_lock that releases on func's success only (addCallback for addBoth)
with_lock_release_on_success(acquire_out, func_out, release_out) ==
    LET release_lock(result) == IF release_out.failed THEN release_out ELSE result
    IN  IF acquire_out.failed
        THEN [calls |-> <<"acquire">>, result |-> acquire_out]
        ELSE IF func_out.failed
        THEN [calls |-> <<"acquire", "func">>, result |-> func_out]
        ELSE [calls |-> <<"acquire", "func", "release">>,
              result |-> release_lock(func_out)]

\* Lock.with_lock: d = maybeDeferred(acquire); d.addCallback(lock_acquired),
\* lock_acquired being maybeDeferred(func).addBoth(release_lock) and
\* release_lock being maybeDeferred(release).addCallback(lambda _: result).
\* The calls made, in order, and what the returned Deferred fires with
with_lock(acquire_out, func_out, release_out) ==
    LET release_lock(result) == IF release_out.failed THEN release_out ELSE result
    IN  IF acquire_out.failed
        THEN [calls |-> <<"acquire">>, result |-> acquire_out]
        ELSE [calls |-> <<"acquire", "func", "release">>,
              result |-> release_lock(func_out)]

MaxSeq == 11        \* the highest sequence number of a child of the lock path
MaxChildren == 2    \* the most children of the lock path
SequenceWidth == 10 \* a sequential node's name ends in its number, in 10 digits

\* the prefixes of the lock objects contending: characters, then "__lock__"
LockPrefixes == {<<"a", "_">>, <<"b", "_">>}

\* the name ZooKeeper gives a sequential node: the prefix, then the
\* sequence number padded with zeros to 10 digits
NodeName(prefix, seq) ==
    prefix \o [k \in 1..SequenceWidth |-> (seq \div 10^(SequenceWidth - k)) % 10]

\* the order of Python strings of one length: by the first character that differs
LexLess(a, b) ==
    \E k \in 1..Len(a) : a[k] < b[k] /\ \A j \in 1..(k - 1) : a[j] = b[j]

\* a check that sorts the children by their last character alone
is_lock_acquired_eff_lastchar(children, prefix) ==
    IF children = {} THEN FALSE
    ELSE LET key(c) == SubSeq(c, Len(c), Len(c))
             first == CHOOSE c \in children :
                         \A d \in children : ~LexLess(key(d), key(c))
         IN  SubSeq(first, 1, Len(first) - SequenceWidth) = prefix

\* is_lock_acquired_eff on the names GetChildren returns:
\* sorted(children, key=lambda c: c[-10:])[0][:-10] == lock.prefix,
\* False without children
is_lock_acquired_eff(children, prefix) ==
    IF children = {} THEN FALSE
    ELSE LET key(c) == SubSeq(c, Len(c) - SequenceWidth + 1, Len(c))
             first == CHOOSE c \in children :
                         \A d \in children : ~LexLess(key(d), key(c))
         IN  SubSeq(first, 1, Len(first) - SequenceWidth) = prefix

\* PartitionState of the partitioner recipe
PartitionStates == {"ALLOCATING", "ACQUIRED", "RELEASE", "FAILURE"}

\* a wrapper that hands out what it is asked for before it has a partitioner
SetPartitioner_attrs_eager(partitioner) ==
    IF partitioner = None
    THEN [state |-> "ALLOCATING", allocating |-> TRUE,
          failed |-> FALSE, release |-> FALSE, acquired |-> TRUE]
    ELSE [state |-> partitioner.state,
          allocating |-> partitioner.state = "ALLOCATING",
          failed |-> partitioner.state = "FAILURE",
          release |-> partitioner.state = "RELEASE",
          acquired |-> partitioner.state = "ACQUIRED"]

\* the attributes the txkazoo SetPartitioner wrapper reports: the state and
\* allocating properties and, through __getattr__, the get_attrs failed,
\* release and acquired; self._partitioner is None until _initialized ran
SetPartitioner_attrs(partitioner) ==
    IF partitioner = None
    THEN [state |-> "ALLOCATING", allocating |-> TRUE,
          failed |-> FALSE, release |-> FALSE, acquired |-> FALSE]
    ELSE [state |-> partitioner.state,
          allocating |-> partitioner.state = "ALLOCATING",
          failed |-> partitioner.state = "FAILURE",
          release |-> partitioner.state = "RELEASE",
          acquired |-> partitioner.state = "ACQUIRED"]

\* one round of the consumer loop `partitioning`: what it does with part
partitioning(part) ==
    IF part.failed THEN "raise"
    ELSE IF part.release THEN "release_set"
    ELSE IF part.acquired THEN "list(part)"
    ELSE IF part.allocating THEN "wait_for_acquire"
    ELSE "loop"

\* the inputs drawn: a listing of `total` servers (newest first, so ids
\* fall) with a page size; a launch config, with or without a server
\* name, and two capacities; the outcomes of acquire, of func
\* (_fetch_and_delete: the events, or a failure) and of release; or the
\* children of the lock path (no two with one sequence number) and the
\* prefix of the lock object asking; or the partitioner a wrapper holds,
\* none yet or one in some state
InitPure ==
    /\ arithIn \in
          [fn : {"get_all_server_details"}, total : 0..MaxTotal, limit : 1..MaxLimit]
          \cup [fn : {"generate_template"},
                launch_config :
                    {[type |-> "launch_server", args |-> [server |-> server]] :
                        server \in {("imageRef" :> "my-image") @@ ("flavorRef" :> "my-flavor"),
                                    ("imageRef" :> "my-image") @@ ("name" :> "web")}},
                n : 0..MaxCapacity, m : 0..MaxCapacity]
          \cup [fn : {"with_lock"},
                acquire : {Outcome(FALSE, "None"), Outcome(TRUE, "BusyLockError"),
                           Outcome(TRUE, "NoLockClaimsError"),
                           Outcome(TRUE, "ConnectionLost")},
                func : {Outcome(FALSE, "[]"), Outcome(FALSE, "events"),
                        Outcome(TRUE, "ConnectionLost")},
                release : {Outcome(FALSE, "None"), Outcome(TRUE, "TimedOut")}]
          \cup [fn : {"is_lock_acquired_eff"},
                children : UNION {{{<<owner[k], seq[k]>> : k \in 1..n} :
                                      owner \in [1..n -> LockPrefixes],
                                      seq \in {q \in [1..n -> 0..MaxSeq] :
                                                  \A k \in 1..(n - 1) : q[k] < q[k + 1]}} :
                                  n \in 0..MaxChildren},
                prefix : LockPrefixes]
          \cup [fn : {"SetPartitioner"},
                partitioner : {None} \cup [state : PartitionStates]]
    /\ arithOut = None

apply_get_all_server_details ==
    /\ arithOut = None
    /\ arithIn.fn = "get_all_server_details"
    /\ arithOut' = get_all_server_details(
                      [k \in 1..arithIn.total |-> [id |-> arithIn.total + 1 - k]],
                      arithIn.limit)
    /\ UNCHANGED <<arithIn, lockVars, ctlVars, httpVars, healVars, svcVars, stackVars, waveVars>>

\* HeatWorker.update_stack generates the template anew from the desired
\* capacity: one template for n, then one for m
apply_generate_template ==
    /\ arithOut = None
    /\ arithIn.fn = "generate_template"
    /\ arithOut' = [of_n |-> generate_template(arithIn.launch_config, arithIn.n),
                    of_m |-> generate_template(arithIn.launch_config, arithIn.m)]
    /\ UNCHANGED <<arithIn, lockVars, ctlVars, httpVars, healVars, svcVars, stackVars, waveVars>>

\* fetch_and_delete: lock.with_lock(_fetch_and_delete, now, size)
apply_with_lock ==
    /\ arithOut = None
    /\ arithIn.fn = "with_lock"
    /\ arithOut' = with_lock(arithIn.acquire, arithIn.func, arithIn.release)
    /\ UNCHANGED <<arithIn, lockVars, ctlVars, httpVars, healVars, svcVars, stackVars, waveVars>>

\* is_lock_acquired: GetChildren(lock.path), then the check
apply_is_lock_acquired_eff ==
    /\ arithOut = None
    /\ arithIn.fn = "is_lock_acquired_eff"
    /\ arithOut' = [acquired |->
                       is_lock_acquired_eff(
                           {NodeName(c[1], c[2]) : c \in arithIn.children},
                           arithIn.prefix)]
    /\ UNCHANGED <<arithIn, lockVars, ctlVars, httpVars, healVars, svcVars, stackVars, waveVars>>

\* the consumer reads the wrapper and acts on what it reports
apply_partitioning ==
    /\ arithOut = None
    /\ arithIn.fn = "SetPartitioner"
    /\ arithOut' = [part |-> SetPartitioner_attrs(arithIn.partitioner),
                    did |-> partitioning(SetPartitioner_attrs(arithIn.partitioner))]
    /\ UNCHANGED <<arithIn, lockVars, ctlVars, httpVars, healVars, svcVars, stackVars, waveVars>>

NextPure ==
    \/ apply_get_all_server_details
    \/ apply_generate_template
    \/ apply_with_lock
    \/ apply_is_lock_acquired_eff
    \/ apply_partitioning

(***************************************************************************)
(* Specifications.                                                         *)
(***************************************************************************)
InitSpecLock == InitLock /\ CtlIdle /\ ArithIdle /\ HttpIdle /\ HealIdle /\ SvcIdle /\ StackIdle /\ WaveIdle

SpecLock == InitSpecLock /\ [][NextLock]_vars

InitSpecCtl == InitCtl /\ InitLock /\ ArithIdle /\ HttpIdle /\ HealIdle /\ SvcIdle /\ StackIdle /\ WaveIdle

SpecCtl == InitSpecCtl /\ [][NextCtl]_vars

InitSpecArith == InitArith /\ InitLock /\ CtlIdle /\ HttpIdle /\ HealIdle /\ SvcIdle /\ StackIdle /\ WaveIdle

SpecArith == InitSpecArith /\ [][NextArith]_vars

InitSpecHttp == InitHttp /\ InitLock /\ CtlIdle /\ ArithIdle /\ HealIdle /\ SvcIdle /\ StackIdle /\ WaveIdle

SpecHttp == InitSpecHttp /\ [][NextHttp]_vars

InitSpecCron == InitCron /\ CtlIdle /\ ArithIdle /\ HttpIdle /\ HealIdle /\ SvcIdle /\ StackIdle /\ WaveIdle

SpecCron == InitSpecCron /\ [][NextCron]_vars

\* the drain of one bucket with every pending callback eventually run: the
\* reactor calls back each Deferred of the chain once its query has answered
SpecDrain == InitSpecCron /\ [][NextCron]_vars /\ WF_vars(NextCron)

InitSpecHeal == InitHeal /\ InitLock /\ CtlIdle /\ ArithIdle /\ HttpIdle /\ SvcIdle /\ StackIdle /\ WaveIdle

SpecHeal == InitSpecHeal /\ [][NextHeal]_vars

InitSpecSched == InitSched /\ InitLock /\ CtlIdle /\ HttpIdle /\ HealIdle /\ SvcIdle /\ StackIdle /\ WaveIdle

SpecSched == InitSpecSched /\ [][NextSched]_vars

InitSpecSvc == InitSvc /\ InitLock /\ CtlIdle /\ ArithIdle /\ HttpIdle /\ HealIdle /\ StackIdle /\ WaveIdle

SpecSvc == InitSpecSvc /\ [][NextSvc]_vars

InitSpecPlan == InitPlan /\ InitLock /\ CtlIdle /\ HttpIdle /\ HealIdle /\ SvcIdle /\ StackIdle /\ WaveIdle

SpecPlan == InitSpecPlan /\ [][NextPlan]_vars

InitSpecStack == InitStack /\ InitLock /\ CtlIdle /\ ArithIdle /\ HttpIdle /\ HealIdle /\ SvcIdle /\ WaveIdle

SpecStack == InitSpecStack /\ [][NextStack]_vars

InitSpecPure == InitPure /\ InitLock /\ CtlIdle /\ HttpIdle /\ HealIdle /\ SvcIdle /\ StackIdle /\ WaveIdle

SpecPure == InitSpecPure /\ [][NextPure]_vars

InitSpecWave == InitWave /\ InitLock /\ CtlIdle /\ ArithIdle /\ HttpIdle /\ HealIdle /\ SvcIdle /\ StackIdle

SpecWave == InitSpecWave /\ [][NextWave]_vars

(***************************************************************************)
(* Properties of the lock and the scheduler.                               *)
(***************************************************************************)
InCriticalSection(i) == pc[i] \in {"fetch", "delete", "release"}

Finished(i) == pc[i] \in {"done", "failed"}

\* C2: for one lock id, at most one BasicLock contender is inside a with_lock
\* critical section at any time.
C2_MutualExclusion ==
    \A i, j \in Instances : (InCriticalSection(i) /\ InCriticalSection(j)) => i = j

\* C1: when two scheduler instances tick concurrently over the same bucket,
\* no due event is executed more than once, and once every instance has
\* finished its tick with at least one of them having drained the bucket,
\* every due event has been executed exactly once.
C1_ExactlyOnce ==
    /\ \A e \in DueEvents : execCount[e] <= 1
    /\ ((\A i \in Instances : Finished(i)) /\ (\E i \in Instances : pc[i] = "done"))
           => \A e \in DueEvents : execCount[e] = 1

(***************************************************************************)
(* Properties of the controller.                                           *)
(***************************************************************************)
\* the part of the group state a policy execution updates
Touched(state) == <<state.desired, state.policy_touched, state.group_touched>>

\* clock units between a recorded timestamp <<seconds, fraction>> and now
UnitsSince(ts, now) == now - (ts[1] * Res + ts[2])

\* the greatest capacity a config allows
EffectiveMax(cfg) ==
    IF cfg.maxEntities = None THEN MAX_ENTITIES
    ELSE Min2(cfg.maxEntities[1], MAX_ENTITIES)

Ran(t) == task[t].pc = "ran"

RanPolicy(t) == Ran(t) /\ task[t].op \in ExistingPolicies

ConvFailures == {"auth_failed", "create_failed", "update_failed"}

\* C3: policy executions on one group submitted concurrently through
\* modify_and_trigger are serialized: from its load to its persist a call
\* holds the group lock and the persisted desired and touched timestamps
\* are still the ones it loaded, so its persist overwrites no other update.
C3_Serialized ==
    \A t \in Tasks :
        task[t].pc \in {"loaded", "ran"} =>
            (glock = t /\ Touched(task[t].pre) = Touched(gstate))

\* a call runs on the state an earlier call persisted while another call waits
C3_Witness ==
    \E t, u \in Tasks :
        /\ t # u
        /\ Ran(t) /\ task[t].result = "ok"
        /\ task[t].pre.group_touched # None
        /\ task[u].pc = "waiting"

C5_CooldownRejection ==
    \A t \in Tasks :
        RanPolicy(t) =>
            LET pre == task[t].pre
                pt  == pre.policy_touched[task[t].op]
                policyHot == /\ pt # None
                             /\ UnitsSince(pt, task[t].at)
                                   < PolicyOf(task[t].op).cooldown * Res
                groupHot  == /\ pre.group_touched # None
                             /\ UnitsSince(pre.group_touched, task[t].at)
                                   < config.cooldown * Res
            IN  /\ task[t].result \in {"ok", "CannotExecutePolicyError"}
                /\ (task[t].result = "CannotExecutePolicyError")
                       <=> (policyHot \/ groupHot)

\* a policy with a cooldown is executed again exactly when its cooldown has elapsed
C5_Witness ==
    \E t \in Tasks :
        /\ RanPolicy(t) /\ task[t].result = "ok"
        /\ PolicyOf(task[t].op).cooldown > 0
        /\ task[t].pre.policy_touched[task[t].op] # None
        /\ UnitsSince(task[t].pre.policy_touched[task[t].op], task[t].at)
              = PolicyOf(task[t].op).cooldown * Res

\* C6: a policy execution rejected for a cooldown leaves the group state as
\* it was (desired, policyTouched, groupTouched), starts no convergence, and
\* nothing is persisted when the call ends.
C6_RejectionLeavesState ==
    [][\A t \in Tasks :
          /\ (task[t].pc = "loaded" /\ task'[t].pc = "ran"
                 /\ task'[t].result = "CannotExecutePolicyError")
                => (task'[t].local = task[t].local
                       /\ task'[t].conv = "none" /\ gstate' = gstate)
          /\ (Ran(t) /\ task[t].result = "CannotExecutePolicyError"
                 /\ task'[t].pc = "idle")
                => gstate' = gstate]_vars

\* a rejected execution, of a group that was touched before
C6_Witness ==
    \E t \in Tasks :
        /\ RanPolicy(t) /\ task[t].result = "CannotExecutePolicyError"
        /\ task[t].local = task[t].pre
        /\ task[t].pre.group_touched # None

\* C7: policy cooldowns are per policy: with group cooldown 0 the execution
\* of a policy that was not executed before succeeds whatever the other
\* policies' timestamps, and a successful execution changes the policy
\* timestamp of the executed policy only.
C7_CooldownPerPolicy ==
    \A t \in Tasks :
        RanPolicy(t) =>
            /\ (config.cooldown = 0 /\ task[t].pre.policy_touched[task[t].op] = None)
                  => task[t].result = "ok"
            /\ task[t].result = "ok" =>
                  \A q \in ExistingPolicies \ {task[t].op} :
                      task[t].local.policy_touched[q] = task[t].pre.policy_touched[q]

\* Q, with a cooldown of its own, succeeds while P's cooldown is still running
C7_Witness ==
    \E t \in Tasks :
        /\ RanPolicy(t) /\ task[t].result = "ok"
        /\ config.cooldown = 0
        /\ PolicyOf(task[t].op).cooldown > 0
        /\ task[t].pre.policy_touched[task[t].op] = None
        /\ \E q \in ExistingPolicies \ {task[t].op} :
              /\ task[t].pre.policy_touched[q] # None
              /\ UnitsSince(task[t].pre.policy_touched[q], task[t].at)
                    < PolicyOf(q).cooldown * Res

\* C8: for changePercent p the change is current*p/100 rounded away from
\* zero: the least whole number not below it when positive, the greatest
\* not above it when negative, and 0 only when current*p = 0.
C8_PercentRoundsAwayFromZero ==
    (/\ arithOut # None
     /\ arithOut.fn = "maybe_execute_scaling_policy"
     /\ arithIn.policy.kind = "changePercent") =>
        LET x == arithIn.n * arithIn.policy.amount
            delta == arithOut.unconstrained - arithIn.n
        IN  /\ x > 0 => (100 * delta >= x /\ 100 * (delta - 1) < x)
            /\ x < 0 => (100 * delta <= x /\ 100 * (delta + 1) > x)
            /\ x = 0 => delta = 0

\* current 3 with +50 percent gives 5
C8_Witness ==
    /\ arithOut # None
    /\ arithOut.fn = "maybe_execute_scaling_policy"
    /\ arithIn.policy.kind = "changePercent"
    /\ arithIn.policy.amount = 50
    /\ arithIn.n = 3
    /\ arithOut.unconstrained = 5

\* C9: when the convergence of a policy execution fails (authentication,
\* stack create or update), the call still succeeds with the clamped desired
\* and both timestamps recorded, and that state is what gets persisted.
C9_ConvergenceFailureKeepsState ==
    [][\A t \in Tasks :
          /\ (task[t].pc = "loaded" /\ task'[t].pc = "ran"
                 /\ task'[t].op \in ExistingPolicies
                 /\ task'[t].conv \in ConvFailures)
                => /\ task'[t].result = "ok"
                   /\ task'[t].local.desired >= config.minEntities
                   /\ task'[t].local.desired <= EffectiveMax(config)
                   /\ task'[t].local.policy_touched[task'[t].op] # None
                   /\ UnitsSince(task'[t].local.policy_touched[task'[t].op], clock) = 0
                   /\ task'[t].local.group_touched # None
                   /\ UnitsSince(task'[t].local.group_touched, clock) = 0
          /\ (Ran(t) /\ task[t].op \in ExistingPolicies
                 /\ task[t].conv \in ConvFailures /\ task'[t].pc = "idle")
                => Touched(gstate') = Touched(task[t].local)]_vars

\* a failed authentication after desired was changed
C9_Witness ==
    \E t \in Tasks :
        /\ RanPolicy(t) /\ task[t].conv = "auth_failed"
        /\ task[t].result = "ok"
        /\ task[t].local.desired # task[t].pre.desired

\* C10: while a scaling group is paused, every scaling policy execution on
\* it is rejected with CannotExecutePolicy and leaves desired unchanged.
C10_PausedRejects ==
    \A t \in Tasks :
        (RanPolicy(t) /\ task[t].pre.paused) =>
            /\ task[t].result = "CannotExecutePolicyError"
            /\ task[t].local.desired = task[t].pre.desired

CallerDict == IF hcall.headers = None THEN EmptyDict ELSE hcall.headers[1]

\* the run of the pipeline has dealt with the refresh of the auth cache
PastRefresh == hpc \in {"check", "done", "failed", "raised"}

\* C12: the tenant's auth cache entry is invalidated exactly when the
\* response status is in reauth_codes (401 and 403, or what the caller
\* passed): once for such a response, before the status check raises
\* APIError, and never for a response with another status.
C12_InvalidateOnReauthCode ==
    /\ hpc = "refresh" => ninval = 0
    /\ PastRefresh =>
          IF respCode \in hcall.reauth_codes
          THEN ninval = 1 /\ authCache = None
          ELSE ninval = 0 /\ authCache # None

\* a 500, made a reauth code by the caller, has been raised as APIError
C12_Witness ==
    /\ hpc = "failed"
    /\ hfail = APIError(500)
    /\ 500 \in hcall.reauth_codes
    /\ ninval = 1
    /\ authCache = None

\* C13: a response whose status is in reauth_codes makes the pipeline
\* invalidate the cache entry and send the request once more with newly
\* acquired auth headers; it does so at most once per call, so a
\* reauth-code response that reaches the caller is the second one.
C13_RedrivesOnce ==
    /\ nreq <= 2
    /\ (PastRefresh /\ respCode \in hcall.reauth_codes) => nreq = 2

\* C14: the headers of every authenticated request are the caller's headers
\* merged with the auth headers, the auth headers winning on every key both
\* have; the caller's headers with other keys are kept unchanged.
C14_AuthHeadersWin ==
    nreq >= 1 =>
        /\ DOMAIN sentHdrs = DOMAIN CallerDict \cup DOMAIN authHdrs
        /\ \A k \in DOMAIN authHdrs : sentHdrs[k] = authHdrs[k]
        /\ \A k \in DOMAIN CallerDict \ DOMAIN authHdrs : sentHdrs[k] = CallerDict[k]

\* a caller who passed an x-auth-token of its own and another header
C14_Witness ==
    /\ nreq >= 1
    /\ "x-auth-token" \in DOMAIN CallerDict
    /\ "base" \in DOMAIN CallerDict
    /\ sentHdrs["x-auth-token"] # CallerDict["x-auth-token"]
    /\ sentHdrs["x-auth-token"] = authCache[1]
    /\ sentHdrs["base"] = "header"

\* C15: when every attempt fails with a failure can_retry accepts,
\* should_retry answers True for at most 5 failures of the request, so the
\* request is attempted at most 6 times.
C15_BoundedRetries ==
    /\ nretries <= RetryLimit
    /\ attempts <= RetryLimit + 1

(***************************************************************************)
(* Properties of the self-heal service.                                    *)
(***************************************************************************)
\* instance i owns the first child of /selfheallock
OwnsLock(i) ==
    \E c \in zkChildren : c[2] = i /\ ~(\E d \in zkChildren : d[1] < c[1])

\* C16: at most one SelfHeal instance at a time sets up convergence
\* triggers: on a tick _converge_all calls _perform only if the instance
\* holds the lock or its acquire succeeds, delayed calls are scheduled only
\* inside _perform, and an instance whose acquire ends in LockTimeout
\* (another instance owning the lock) schedules nothing on that tick.
C16_OnlyLockHolderSetsUp ==
    [][\A i \in HealInstances :
          /\ (healPc[i] = "idle" /\ healPc'[i] = "perform")
                => (OwnsLock(i)' /\ \A j \in HealInstances \ {i} : ~OwnsLock(j))
          /\ (healTicks' # healTicks /\ lastTick' = <<i, "LockTimeout">>)
                => (healPc'[i] = "idle" /\ calls'[i] = calls[i])
          /\ (Len(calls'[i]) > Len(calls[i])) => healPc[i] = "perform"]_vars

\* an instance has run into LockTimeout and has nothing scheduled, while
\* the owner of the lock has a wave out
C16_Witness ==
    \E i, j \in HealInstances :
        /\ i # j
        /\ OwnsLock(i) /\ calls[i] # <<>>
        /\ lastTick = <<j, "LockTimeout">> /\ calls[j] = <<>>

\* C17: once a SelfHeal instance has lost the lock (or its coordination
\* connection), the triggers it scheduled are cancelled: every
\* check_and_trigger that fires was scheduled by the instance that owns the
\* lock when it fires.
C17_NoTriggerAfterLockLoss ==
    lastFire # None => lastFire.has_lock

\* C18: a self-heal trigger submits a convergence request only if the group
\* status read when it fires is ACTIVE and the group is not paused; for
\* ERROR, DISABLED or DELETING, or a paused group, it starts no convergence.
C18_TriggerOnlyActiveUnpaused ==
    (lastFire # None /\ lastFire.triggered) =>
        (lastFire.status = "ACTIVE" /\ ~lastFire.paused)

\* a trigger has found its group ACTIVE but paused, and left it alone
C18_Witness ==
    /\ lastFire # None
    /\ lastFire.status = "ACTIVE"
    /\ lastFire.paused
    /\ ~lastFire.triggered

\* the schedule computed for arithIn: one call per group in listing order,
\* the k-th (from 1) at (k-1)*(interval-5)/n, the delays never decreasing
ScheduleAsListed ==
    LET cs == arithOut.calls
        n == arithIn.n
        range == arithIn.interval - TimeRangeMargin
    IN  /\ Len(cs) = n
        /\ \A k \in 1..n :
              /\ cs[k].group = k
              /\ cs[k].den > 0
              /\ cs[k].num * n = (k - 1) * range * cs[k].den
        /\ \A k \in 1..(n - 1) : cs[k].num * cs[k + 1].den <= cs[k + 1].num * cs[k].den

\* every delay of the schedule lies in [0, interval-5)
DelaysInWindow ==
    \A k \in 1..Len(arithOut.calls) :
        /\ arithOut.calls[k].num >= 0
        /\ arithOut.calls[k].num
              < (arithIn.interval - TimeRangeMargin) * arithOut.calls[k].den

\* C19 as stated: for N > 0 groups _setup_converges schedules one trigger
\* per group, the i-th at offset i*(interval-5)/N, so every offset lies in
\* [0, interval-5) and the offsets are non-decreasing; for N = 0 nothing is
\* scheduled.
C19_OffsetsInWindow ==
    arithOut # None =>
        /\ arithIn.n = 0 => arithOut.calls = <<>>
        /\ arithIn.n > 0 => (ScheduleAsListed /\ DelaysInWindow)

\* C19 as amended: for N > 0 groups and an interval above 5 seconds,
\* _setup_converges schedules one trigger per group, the i-th at offset
\* i*(interval-5)/N, so every offset lies in [0, interval-5) and the
\* offsets are non-decreasing; for N = 0 nothing is scheduled.
C19_OffsetsInWindowAbove5 ==
    arithOut # None =>
        /\ arithIn.n = 0 => arithOut.calls = <<>>
        /\ (arithIn.n > 0 /\ arithIn.interval > TimeRangeMargin) =>
              (ScheduleAsListed /\ DelaysInWindow)

\* three groups and an interval of 10: the second trigger is due after 5/3 s
C19_Witness ==
    /\ arithOut # None
    /\ arithIn.n = 3
    /\ arithIn.interval = 10
    /\ arithOut.calls[2].num * 3 = 5 * arithOut.calls[2].den
    /\ arithOut.calls[3].num * 3 = 10 * arithOut.calls[3].den

(***************************************************************************)
(* Properties of the scheduler's cron events.                              *)
(***************************************************************************)
\* C20: after a batch of fetched events has been processed, a successor
\* event is inserted for exactly those events of the batch whose cron is
\* set and whose policy was not found deleted (NoSuchScalingGroup,
\* NoSuchPolicy); an event without cron and an event of a deleted policy or
\* group is never re-inserted.
C20_CronSuccessors ==
    [][\A i \in Instances :
          (pc[i] = "process" /\ pc'[i] # "process") =>
              /\ events \subseteq events'
              /\ \A e \in SeqSet(fetched[i]) :
                    (HasCron(e[2]) /\ e[2] \notin DeletedPolicies)
                        => \E s \in events' : s[2] = e[2] /\ s[1] > e[1]
              /\ \A s \in events' \ events :
                    \E e \in SeqSet(fetched[i]) :
                        /\ s[2] = e[2]
                        /\ HasCron(e[2])
                        /\ e[2] \notin DeletedPolicies]_vars

\* every due event has been processed: the cron event of a live policy has
\* its successor, the cron event of the deleted policy and the event
\* without cron have none
C20_Witness ==
    /\ \A e \in DueEvents : execCount[e] >= 1
    /\ \E p \in 1..NumDue :
          HasCron(p) /\ p \notin DeletedPolicies /\ <<TickTime + 1, p>> \in events
    /\ \E p \in 1..NumDue :
          HasCron(p) /\ p \in DeletedPolicies /\ ~(\E s \in events : s[2] = p)
    /\ \E p \in 1..NumDue :
          ~HasCron(p) /\ p \notin DeletedPolicies /\ ~(\E s \in events : s[2] = p)

(***************************************************************************)
(* Properties of the drain of a bucket.                                    *)
(***************************************************************************)
\* events of the bucket that are due at the tick's `now`
DueNow == {e \in events : e[1] = TickTime}

\* fetch_and_delete calls made so far (each constructs one lock object)
Fetches == nextClaim - 1

\* C21: check_events_in_bucket fetches again exactly when the previous
\* fetch_and_delete returned batchsize events and stops otherwise (fewer
\* events, none, or a failed fetch); the successor of a cron event is due
\* later than now, so every full batch removes batchsize due events for
\* good and the drain of the bucket comes to its end.
C21_DrainTerminates ==
    /\ [][\A i \in CronInstances :
            /\ (pc[i] = "process" /\ pc'[i] # "process") =>
                   /\ pc'[i] = (IF Len(fetched[i]) = BatchSize THEN "more" ELSE "done")
                   /\ \A s \in events' \ events : s[1] > TickTime
            /\ claimId'[i] # claimId[i] =>
                   \/ pc[i] = "idle"
                   \/ pc[i] = "more" /\ Len(fetched[i]) = BatchSize
            /\ pc[i] \in {"done", "failed"} => pc'[i] = pc[i]
            /\ Cardinality(DueNow') <= Cardinality(DueNow)]_vars
    /\ [](Fetches <= (NumDue \div BatchSize) + 1)
    /\ <>[](\A i \in CronInstances : pc[i] \in {"done", "failed"})

\* a drain of two fetches: a full batch, then the rest of the bucket
C21_Witness ==
    /\ \E i \in CronInstances : pc[i] = "done" /\ Len(fetched[i]) < BatchSize
    /\ Fetches = 2
    /\ DueNow = {}
    /\ \A e \in DueEvents : execCount[e] = 1

(***************************************************************************)
(* Properties of the scheduler service.                                    *)
(***************************************************************************)
\* C22: on a tick where the partitioner is not acquired the scheduler
\* does nothing: no bucket is checked, no event is fetched and deleted, no
\* policy is executed; on a tick where it is acquired, the buckets checked
\* are exactly the buckets the partitioner holds for this instance, and only
\* their events are deleted and executed.
C22_TickOnlyWhenAcquired ==
    [][(svcOps' # svcOps /\ svcOut'.op = "check_events") =>
          /\ partState # "ACQUIRED" =>
                /\ svcOut'.checked = {}
                /\ svcOut'.executed = {}
                /\ bucketEvents' = bucketEvents
          /\ partState = "ACQUIRED" =>
                /\ svcOut'.checked = partBuckets
                /\ \A e \in svcOut'.executed : e[1] \in partBuckets
                /\ \A b \in Buckets \ partBuckets : bucketEvents'[b] = bucketEvents[b]]_vars

\* a tick came while the partitioner was releasing a bucket that holds a
\* due event: nothing was checked
C22_Witness ==
    /\ svcOut # None
    /\ svcOut.op = "check_events"
    /\ svcOut.checked = {}
    /\ partState = "RELEASE"
    /\ \E b \in partBuckets : \E t \in bucketEvents[b] : t <= svcClock

\* the owned buckets whose oldest event is more than Threshold older than now
OldBuckets ==
    {b \in partBuckets :
        bucketEvents[b] # {} /\ svcClock - SetMin(bucketEvents[b]) > Threshold}

\* C23: a health check that returns reports healthy if and only if the
\* service is running, the partitioner is acquired and no owned bucket has
\* an oldest event whose trigger is more than threshold before now; when
\* running and acquired, its detail lists exactly the oldest events beyond
\* the threshold.
C23_HealthCheck ==
    [][(svcOps' # svcOps /\ svcOut'.op = "health_check" /\ ~svcOut'.failed) =>
          LET r == svcOut'.result IN
          /\ r.healthy <=> (svcRunning /\ partState = "ACQUIRED" /\ OldBuckets = {})
          /\ (svcRunning /\ partState = "ACQUIRED") =>
                r.old_events = {[bucket |-> b,
                                 trigger |-> TriggerStr(SetMin(bucketEvents[b]))] :
                                    b \in OldBuckets}]_vars

\* a health check found one owned bucket with an old event and another
\* whose oldest event is exactly threshold old
C23_Witness ==
    /\ svcOut # None
    /\ svcOut.op = "health_check"
    /\ ~svcOut.failed
    /\ svcRunning /\ partState = "ACQUIRED"
    /\ "old_events" \in DOMAIN svcOut.result
    /\ Cardinality(svcOut.result.old_events) = 1
    /\ OldBuckets # {}
    /\ \E b \in partBuckets \ OldBuckets :
          bucketEvents[b] # {} /\ svcClock - SetMin(bucketEvents[b]) = Threshold

(***************************************************************************)
(* Properties of the convergence planner.                                  *)
(***************************************************************************)
\* the steps of one kind in the plan
StepsOf(kind) == SelectSeq(arithOut.steps, LAMBDA st : st[1] = kind)

ObservedServers == SeqSet(arithIn.servers)

\* the healthy survivors: active servers and builds that have not timed out
Survivors ==
    {x \in ObservedServers :
        \/ x.state = "ACTIVE"
        \/ x.state = "BUILD" /\ arithIn.now - x.created < BuildTimeout}

DeletedIds == {st[2] : st \in SeqSet(StepsOf("DeleteServer"))}

\* C24: the planner reaches a fixed point in one step: once every step of
\* converge(desired, servers, nodes, t) has been executed and the observation
\* sampled again (created servers building, deleted servers and removed
\* nodes gone, added and changed nodes as desired), converge returns the
\* empty plan.
C24_FixedPointInOneStep ==
    arithOut # None => arithOut.again = <<>>

\* a plan that created, deleted, removed a node and changed or added one
C24_Witness ==
    /\ arithOut # None
    /\ arithOut.again = <<>>
    /\ StepsOf("DeleteServer") # <<>>
    /\ StepsOf("RemoveFromLoadBalancer") # <<>>
    /\ StepsOf("AddToLoadBalancer") # <<>> \/ StepsOf("ChangeLoadBalancerNode") # <<>>
    /\ Len(arithOut.after.servers) = arithIn.desired

\* C25: the plan holds at most max(0, desired - |healthy survivors|)
\* CreateServer steps, errored servers and timed-out builds not counting as
\* survivors, and exactly that many; so it holds none when building plus
\* active servers meet desired, and a timed-out build found while at or over
\* capacity is deleted without replacement.
C25_BoundedCreation ==
    arithOut # None =>
        /\ Len(StepsOf("CreateServer"))
              = Max2(0, arithIn.desired - Cardinality(Survivors))
        /\ Cardinality(Survivors) >= arithIn.desired => StepsOf("CreateServer") = <<>>

\* a timed-out build was deleted while the survivors met desired: no
\* server was created
C25_Witness ==
    /\ arithOut # None
    /\ \E x \in ObservedServers :
          /\ x.state = "BUILD" /\ arithIn.now - x.created >= BuildTimeout
          /\ x.id \in DeletedIds
    /\ Cardinality(Survivors) >= arithIn.desired
    /\ arithIn.desired > 0
    /\ StepsOf("CreateServer") = <<>>

\* C26: the ids of the DeleteServer steps of a plan are pairwise distinct
\* and all belong to observed servers: an errored server or timed-out build
\* is deleted by one step even when the group is over capacity.
C26_NoDoubleDelete ==
    arithOut # None =>
        LET dels == StepsOf("DeleteServer") IN
        /\ \A j, k \in 1..Len(dels) : dels[j][2] = dels[k][2] => j = k
        /\ DeletedIds \subseteq {x.id : x \in ObservedServers}

\* an errored server and a timed-out build were deleted while the group was
\* over capacity
C26_Witness ==
    /\ arithOut # None
    /\ Len(arithIn.servers) > arithIn.desired
    /\ \E x \in ObservedServers : x.state = "ERROR" /\ x.id \in DeletedIds
    /\ \E x \in ObservedServers : x.state = "BUILD" /\ x.id \in DeletedIds
                                  /\ x \notin Survivors

\* C27: for every DeleteServer(s) of a plan, deleted as errored or for
\* scale-down, every observed node whose address is the servicenet address of
\* s has exactly one RemoveFromLoadBalancer(lb id, node id) in the plan, and
\* the plan holds no AddToLoadBalancer and no ChangeLoadBalancerNode for a
\* server it deletes.
C27_LBSymmetry ==
    arithOut # None =>
        \A x \in ObservedServers :
            (x.id \in DeletedIds /\ x.servicenet_address # 0) =>
                /\ \A n \in SeqSet(arithIn.lb_nodes) :
                      n.address = x.servicenet_address =>
                          Len(SelectSeq(StepsOf("RemoveFromLoadBalancer"),
                                        LAMBDA st : st[2] = n.config.lb_id
                                                    /\ st[3] = n.node_id)) = 1
                /\ \A st \in SeqSet(StepsOf("AddToLoadBalancer")) :
                      st[3] # x.servicenet_address
                /\ \A st \in SeqSet(StepsOf("ChangeLoadBalancerNode")) :
                      \A n \in SeqSet(arithIn.lb_nodes) :
                          (n.node_id = st[3] /\ n.config.lb_id = st[2])
                              => n.address # x.servicenet_address

\* an errored server with a node was deleted and its node removed, while
\* an active server deleted for scale-down wanted a node it never got
C27_Witness ==
    /\ arithOut # None
    /\ \E x \in ObservedServers :
          /\ x.state # "ACTIVE" /\ x.id \in DeletedIds
          /\ \E n \in SeqSet(arithIn.lb_nodes) : n.address = x.servicenet_address
    /\ \E x \in ObservedServers :
          /\ x.state = "ACTIVE" /\ x.id \in DeletedIds
          /\ x.servicenet_address # 0 /\ x.desired_lbs # <<>>
          /\ \A n \in SeqSet(arithIn.lb_nodes) : n.address # x.servicenet_address

\* C28: when the survivors exceed desired, the plan deletes exactly
\* |survivors| - desired of them: building servers first whatever their
\* age, then active servers from the oldest; no active server is deleted
\* while a building server is kept, nor while an older active server is kept.
C28_ScaleDownOrder ==
    arithOut # None =>
        LET gone == {x \in Survivors : x.id \in DeletedIds}
            kept == Survivors \ gone
        IN  /\ Cardinality(gone) = Max2(0, Cardinality(Survivors) - arithIn.desired)
            /\ \A x \in gone : x.state = "ACTIVE" =>
                  /\ \A y \in kept : y.state = "ACTIVE"
                  /\ \A y \in kept : y.created >= x.created

\* one server too many: the building server was deleted although the
\* active server kept is the older one
C28_Witness ==
    /\ arithOut # None
    /\ Cardinality(Survivors) = arithIn.desired + 1
    /\ \E x \in Survivors, y \in Survivors :
          /\ x.state = "BUILD" /\ x.id \in DeletedIds
          /\ y.state = "ACTIVE" /\ y.id \notin DeletedIds
          /\ y.created < x.created

C30_FollowUpAfterUpdateInProgress ==
    (/\ lastUpdate # None
     /\ lastUpdate.outcome = UpdateInProgressError
     /\ lastUpdate.desired = stDesired
     /\ ~heatBusy)
        => heatTemplate = stDesired

(***************************************************************************)
(* Properties of the paged listing and of the template.                    *)
(***************************************************************************)
\* the listing the compute service holds for the inputs drawn
NovaListing == [k \in 1..arithIn.total |-> [id |-> arithIn.total + 1 - k]]

\* C31: get_all_server_details asks for pages of limit servers, the id of
\* the last server of a page being the marker of the next, and stops at
\* the first page shorter than limit (an empty page when the total is a
\* multiple of limit): it makes total div limit + 1 requests and returns
\* every server once, in listing order.
C31_PagedListing ==
    (arithOut # None /\ arithIn.fn = "get_all_server_details") =>
        /\ arithOut.servers = NovaListing
        /\ arithOut.requests = (arithIn.total \div arithIn.limit) + 1

\* a listing of several full pages whose last page is empty
C31_Witness ==
    /\ arithOut # None
    /\ arithIn.fn = "get_all_server_details"
    /\ arithIn.total > arithIn.limit
    /\ arithIn.limit > 1
    /\ arithIn.total % arithIn.limit = 0
    /\ arithOut.requests = (arithIn.total \div arithIn.limit) + 1

\* the name the resources of a template are numbered under
TemplateName ==
    IF "name" \in DOMAIN arithIn.launch_config.args.server
    THEN arithIn.launch_config.args.server["name"] ELSE "server"

\* C40: generate_template(launch_config, n) defines exactly n resources,
\* named <name>-0 to <name>-(n-1), all with the same definition; for m <= n
\* the resources of the template for m are among those for n, and the
\* update from n to m drops exactly the resources of index m to n-1.
C40_TemplateResources ==
    (arithOut # None /\ arithIn.fn = "generate_template") =>
        LET res_n == arithOut.of_n.resources
            res_m == arithOut.of_m.resources
            named(lo, hi) == {TemplateName \o "-" \o ToString(i) : i \in lo..hi}
        IN  /\ Cardinality(DOMAIN res_n) = arithIn.n
            /\ DOMAIN res_n = named(0, arithIn.n - 1)
            /\ \A a, b \in DOMAIN res_n : res_n[a] = res_n[b]
            /\ arithIn.m <= arithIn.n =>
                  /\ DOMAIN res_m \subseteq DOMAIN res_n
                  /\ \A k \in DOMAIN res_m : res_m[k] = res_n[k]
                  /\ DOMAIN res_n \ DOMAIN res_m = named(arithIn.m, arithIn.n - 1)

\* a template of several named servers scaled down, but not to nothing
C40_Witness ==
    /\ arithOut # None
    /\ arithIn.fn = "generate_template"
    /\ 0 < arithIn.m /\ arithIn.m + 1 < arithIn.n
    /\ "web-0" \in DOMAIN arithOut.of_m.resources
    /\ Cardinality(DOMAIN arithOut.of_n.resources \ DOMAIN arithOut.of_m.resources)
          = arithIn.n - arithIn.m

(***************************************************************************)
(* Properties of the lock's claim row and of with_lock.                    *)
(***************************************************************************)
\* the instances inside with_lock's critical section, the lock acquired
\* and not yet released
Holding == {i \in Instances : pc[i] \in {"fetch", "delete", "release"}}

\* C32: while a BasicLock is held its claim row is written again every
\* claim_interval, so the row of a holder is in the table for as long as
\* the critical section takes.
C32_ClaimKeptWhileHeld ==
    \A i \in Holding : claimId[i] \in claims

\* what with_lock does before its result: func only after an acquire that
\* succeeded, then release once; nothing after an acquire that failed
WithLockCalls ==
    arithOut.calls = IF arithIn.acquire.failed THEN <<"acquire">>
                     ELSE <<"acquire", "func", "release">>

\* C37 as stated: func is called only after acquire succeeded and release
\* once after func, whether func succeeded or failed; the result is func's
\* result or failure, and the acquire failure when acquire fails.
C37_WithLockYieldsFunc ==
    (arithOut # None /\ arithIn.fn = "with_lock") =>
        /\ WithLockCalls
        /\ arithOut.result = IF arithIn.acquire.failed THEN arithIn.acquire
                             ELSE arithIn.func

\* C37, amended: the same calls; the result is func's result or failure
\* when release succeeds and the failure of release when release fails
\* (the acquire failure when acquire fails).
C37_WithLock ==
    (arithOut # None /\ arithIn.fn = "with_lock") =>
        /\ WithLockCalls
        /\ arithOut.result = IF arithIn.acquire.failed THEN arithIn.acquire
                             ELSE IF arithIn.release.failed THEN arithIn.release
                             ELSE arithIn.func

\* func failed under the lock: release was called once and, having
\* succeeded, func's failure is the result
C37_Witness ==
    /\ arithOut # None
    /\ arithIn.fn = "with_lock"
    /\ ~arithIn.acquire.failed
    /\ arithIn.func.failed
    /\ ~arithIn.release.failed
    /\ arithOut.calls = <<"acquire", "func", "release">>
    /\ arithOut.result = arithIn.func

(***************************************************************************)
(* Failed executions and the cron schedule.                                *)
(***************************************************************************)
\* C38: a cron event whose execution was rejected with
\* CannotExecutePolicyError, or failed with an error other than
\* NoSuchScalingGroupError and NoSuchPolicyError, has its successor in the
\* bucket, as has every executed one whatever became of the other events
\* of its batch; only a missing group or policy ends the schedule.
C38_FailedExecutionKeepsSchedule ==
    \A e \in DueEvents :
        (HasCron(e[2]) /\ execResult[e] # "none") =>
            (<<next_cron_occurrence(TickTime), e[2]>> \in events
                <=> execResult[e] \notin {"NoSuchScalingGroupError", "NoSuchPolicyError"})

\* one batch held a cron event whose execution failed and a cron event of
\* a deleted policy: the first has its successor, the second has none
C38_Witness ==
    \E e, f \in DueEvents :
        /\ HasCron(e[2]) /\ HasCron(f[2])
        /\ \E i \in Instances : fetched[i] = <<e, f>>
        /\ execResult[e] \in {"CannotExecutePolicyError", "error"}
        /\ execResult[f] = "NoSuchPolicyError"
        /\ <<next_cron_occurrence(TickTime), e[2]>> \in events
        /\ <<next_cron_occurrence(TickTime), f[2]>> \notin events

(***************************************************************************)
(* The check of the self-heal lock on the names of the children.           *)
(***************************************************************************)
\* C33: is_lock_acquired_eff answers True if and only if the lock path has
\* a child and the child with the lowest sequence number carries the
\* prefix of this lock object; False without children or when the lowest
\* child is another contender's.  The answer on the names is the answer
\* is_lock_acquired gives on the children as <<sequence number, prefix>>.
C33_LowestChildDecides ==
    (arithOut # None /\ arithIn.fn = "is_lock_acquired_eff") =>
        LET cs == arithIn.children IN
        /\ arithOut.acquired <=>
              /\ cs # {}
              /\ \E c \in cs : /\ \A d \in cs : c[2] <= d[2]
                               /\ c[1] = arithIn.prefix
        /\ arithOut.acquired <=>
              is_lock_acquired({<<c[2], c[1]>> : c \in cs}, arithIn.prefix)

\* this lock object's child has number 10 and another contender's number
\* 9: the answer is False
C33_Witness ==
    /\ arithOut # None
    /\ arithIn.fn = "is_lock_acquired_eff"
    /\ arithIn.children = {<<arithIn.prefix, 10>>,
                           <<CHOOSE p \in LockPrefixes : p # arithIn.prefix, 9>>}
    /\ ~arithOut.acquired

(***************************************************************************)
(* The partitioner wrapper before its partitioner exists.                  *)
(***************************************************************************)
\* C34: until the underlying partitioner has been constructed, the
\* SetPartitioner wrapper reports state ALLOCATING, allocating true and
\* acquired, release and failed false, and a consumer that uses the
\* partition only when acquired does not use it.
C34_AllocatingUntilInitialized ==
    (arithOut # None /\ arithIn.fn = "SetPartitioner"
                     /\ arithIn.partitioner = None) =>
        /\ arithOut.part = [state |-> "ALLOCATING", allocating |-> TRUE,
                            failed |-> FALSE, release |-> FALSE,
                            acquired |-> FALSE]
        /\ arithOut.did # "list(part)"

\* a consumer has read a wrapper without partitioner and goes on to wait
C34_Witness ==
    /\ arithOut # None
    /\ arithIn.fn = "SetPartitioner"
    /\ arithIn.partitioner = None
    /\ arithOut.part.state = "ALLOCATING"
    /\ arithOut.did = "wait_for_acquire"

(***************************************************************************)
(* The waves of one self-heal instance.                                    *)
(***************************************************************************)
\* C35: when a SelfHeal instance sets up a new wave no call of its previous
\* wave is still active: with the timer ticking every interval, the count
\* _cancel_scheduled_calls returns to _setup_converges is 0.
C35_NoLeftoverCalls ==
    wActive # None => wActive = <<0>>

\* C36: after stopService the instance holds no active scheduled call, so
\* that none fires, also when the listing of the last tick arrives after
\* the stop.
C36_NothingScheduledAfterStop ==
    ~wRunning => wCalls = {}

(***************************************************************************)
(* The stack of a group over its converges.                                *)
(***************************************************************************)
\* C39: over the converge calls on one group state, run one after the
\* other, a stack is created only while heat_stack is unset and the link is
\* stored on success; every later converge calls update_stack and
\* heat_stack, once set, is never cleared or replaced.
C39_StackCreatedOnce ==
    [][/\ heatStack' # heatStack => (heatStack = None /\ nconv' = nconv + 1)
       /\ (heatStack # None /\ nconv' # nconv)
             => (heatStack' = heatStack /\ lastUpdate' # None
                 /\ lastUpdate'.desired = stDesired')]_vars

\* a creation failed, the next converge created the stack and a later one
\* updated it
C39_Witness ==
    /\ heatStack = <<"link", 2>>
    /\ nconv = 3
    /\ lastUpdate # None

====
